---------------------------- MODULE Spec2Model ----------------------------
(***************************************************************************)
(* Client resilience-and-performance toolkit of notified-frontend:         *)
(*   - fetchWithRetry / calculateBackoff / isRetryableError                *)
(*   - timeout / withTimeout                                               *)
(*   - MemoCache                                                           *)
(*   - calculateVisibleRange / useVirtualList                              *)
(*   - useDebouncedCallback / useThrottledCallback                         *)
(*   - createAbortController                                               *)
(* (src/unnamed/part_003, the utils of the repository).                    *)
(*                                                                         *)
(* Each component has its own specification over the shared variables; the *)
(* variables of the components a specification does not exercise stay at   *)
(* their initial value.                                                    *)
(***************************************************************************)
EXTENDS Integers, Sequences, FiniteSets, TLC

VARIABLES
    \* ---- fetchWithRetry: one invocation
    rpc,          \* position: "idle" | "awaitFn" | "sleep" | "returned" | "thrown"
    retryConfig,  \* the merged RetryConfig of the invocation
    attempt,      \* the loop variable
    lastError,    \* the local lastError
    rresult,      \* the value returned, or the failure thrown
    okValue,      \* history: the value fn fulfilled with
    calls,        \* history: number of invocations of fn
    errs,         \* history: the failure raised by each failed attempt, in order
    delays,       \* history: the delay of each timer the loop scheduled, in order
    defaultConfig,\* the module-level object DEFAULT_RETRY_CONFIG
    configArg,    \* history: the config argument of the call, <<>> for {}
    overridden,   \* history: an earlier call was given a config that is not {}
    \* ---- withTimeout: one race
    opState,      \* the raced promise: "none" | "pending" | "fulfilled" | "rejected"
    opValue,      \* its value or failure
    opSettledAt,  \* history: the time at which it settled
    timerState,   \* the timer of timeout(): "none" | "pending" | "fired"
    opAtFire,     \* history: opState at the moment the timer fired
    raceState,    \* the promise withTimeout returns: "none" | "pending" | "fulfilled" | "rejected"
    raceValue,    \* its value or failure
    ms,           \* the ms argument
    message,      \* the message argument, NoValue when the caller omits it
    now,          \* the time since the call, in ms
    \* ---- MemoCache: one instance
    cache,        \* the Map, as the sequence of its entries in insertion order
    maxSize,      \* the private maxSize
    ret,          \* the last operation and what it returned
    log,          \* history: the <<key, value>> of the sets since construction or the last clear
    logOverflow,  \* history: more sets happened than the history keeps
    births,       \* history: the stored keys, in the order in which their entries were created
    cleared,      \* history: clear() was called on the instance
    \* ---- the pure functions: one application
    fnIn,         \* the arguments drawn
    fnOut,        \* <<>>, and <<result>> once the function was applied
    \* ---- useDebouncedCallback: one mounted hook
    timeoutRef,   \* timeoutRef.current: 0 for null, else the id of the last timer set
    callbackRef,  \* callbackRef.current
    dTimers,      \* the pending timers of the host: [id, due, args]
    dDelay,       \* the delay argument
    dNow,         \* the time, in ms
    dCalls,       \* history: the calls of the debounced function, [at, args]
    dDelivered,   \* history: the invocations of the wrapped function, [at, args, callback]
    \* ---- useThrottledCallback: one mounted hook
    inThrottle,   \* inThrottle.current
    thCallbackRef,\* callbackRef.current
    thTimers,     \* the pending timers of the host, by the time they are due
    limit,        \* the limit argument
    thNow,        \* the time, in ms
    thCalls,      \* history: the calls of the throttled function, [at, args]
    thDelivered,  \* history: the invocations of the wrapped function, [at, call, args, callback]
    \* ---- createAbortController: one controller
    controller,   \* "none" before the call, then signal.aborted: "live" | "aborted"
    abTimer,      \* the timer set at creation: "none" | "pending" | "fired"
    timeoutMs,    \* the timeoutMs argument
    abNow,        \* the time since the call, in ms
    abExplicit,   \* history: the caller has called controller.abort()
    \* ---- the component that uses a hook
    unmounted,    \* the component has been unmounted
    atCall,       \* history: callbackRef.current when the debounced function was last called
    \* ---- fetchWithRetry: a second invocation, in flight with the first
    peer          \* its locals and observed history, as a record

retryVars == <<rpc, retryConfig, attempt, lastError, rresult, okValue, calls, errs, delays,
              defaultConfig, configArg, overridden>>
raceVars  == <<opState, opValue, opSettledAt, timerState, opAtFire, raceState, raceValue, ms, message, now>>
cacheVars == <<cache, maxSize, ret, log, logOverflow, births, cleared>>
fnVars    == <<fnIn, fnOut>>
debounceVars == <<timeoutRef, callbackRef, dTimers, dDelay, dNow, dCalls, dDelivered>>
throttleVars == <<inThrottle, thCallbackRef, thTimers, limit, thNow, thCalls, thDelivered>>
abortVars    == <<controller, abTimer, timeoutMs, abNow, abExplicit>>
otherVars    == <<unmounted, atCall, peer>>
vars      == <<retryVars, raceVars, cacheVars, fnVars, debounceVars, throttleVars, abortVars,
               otherVars>>

\* what the actions of one component leave alone
notRetry == <<raceVars, cacheVars, fnVars, debounceVars, throttleVars, abortVars, otherVars>>
notRace  == <<retryVars, cacheVars, fnVars, debounceVars, throttleVars, abortVars, otherVars>>
notCache == <<retryVars, raceVars, fnVars, debounceVars, throttleVars, abortVars, otherVars>>
notFn    == <<retryVars, raceVars, cacheVars, debounceVars, throttleVars, abortVars, otherVars>>
notDebounce == <<retryVars, raceVars, cacheVars, fnVars, throttleVars, abortVars, otherVars>>
notThrottle == <<retryVars, raceVars, cacheVars, fnVars, debounceVars, abortVars, otherVars>>
notAbort    == <<retryVars, raceVars, cacheVars, fnVars, debounceVars, throttleVars, otherVars>>

(***************************************************************************)
(* Bounds of the model.                                                    *)
(***************************************************************************)
\* per-call overrides of maxRetries range over 0..MaxRetriesOverride
MaxRetriesOverride == 4
\* attempts given to calculateBackoff range over 0..MaxAttempt
MaxAttempt == 6
\* HTTP-like status codes given to the classifier range over MinStatus..MaxStatus
MinStatus == 398
MaxStatus == 601
\* the clock of the race stops at MaxTime
MaxTime == 4
\* MemoCache capacities range over 1..MaxCapacity
MaxCapacity == 2

Min(a, b) == IF a <= b THEN a ELSE b
Max(a, b) == IF a >= b THEN a ELSE b

RECURSIVE Pow(_, _)
\* Math.pow on non-negative integer exponents
Pow(b, e) == IF e = 0 THEN 1 ELSE b * Pow(b, e - 1)

NoValue == "undefined"

(***************************************************************************)
(* Failure values.  A failure is a record; the fields an observer can see  *)
(* are its shape, its status (API failures only) and its message.          *)
(***************************************************************************)
Messages == {"m1", "m2"}

NetworkFailure(m) == [shape |-> "network", message |-> m]
ApiFailure(s, m)  == [shape |-> "api", status |-> s, message |-> m]
\* new Error(m)
Error(m)          == [shape |-> "error", message |-> m]

\* what else a catch block can receive (error: unknown): a thrown string,
\* null, undefined, and an object that carries no status
StringFailure    == [shape |-> "string", message |-> "m1"]
NullFailure      == [shape |-> "null"]
UndefinedFailure == [shape |-> "undefined"]
ObjectFailure    == [shape |-> "object", message |-> "m1"]

\* failures of unknown shape: neither a network failure nor an API failure
UnknownFailures ==
    {Error(m) : m \in Messages}
      \cup {StringFailure, NullFailure, UndefinedFailure, ObjectFailure}

\* failures the operation given to fetchWithRetry / withTimeout raises
OpFailures ==
    {NetworkFailure("m1"), Error("m1")}
      \cup {ApiFailure(s, "m1") : s \in {404, 408, 429, 500}}
      \cup {ApiFailure(503, "m2")}
      \cup {StringFailure, NullFailure, UndefinedFailure, ObjectFailure}

\* every failure the classifier is applied to
AllFailures ==
    {NetworkFailure(m) : m \in Messages} \cup UnknownFailures
      \cup {ApiFailure(s, m) : s \in MinStatus..MaxStatus, m \in Messages}

\* success values of the operation
OpValues == {"v1", "v2"}

\* the type guards imported from '../types': a network-level failure is one
\* for which no response was received, an API failure carries a numeric status
isNetworkError(error) == error.shape = "network"
isApiError(error) == error.shape = "api"

(***************************************************************************)
(* Retry policy.                                                           *)
(***************************************************************************)
DEFAULT_RETRY_CONFIG ==
    [maxRetries |-> 3, initialDelay |-> 1000, maxDelay |-> 10000, backoffMultiplier |-> 2]

ConfigFields == DOMAIN DEFAULT_RETRY_CONFIG

\* values a caller overrides the fields with
OverrideValues ==
    [maxRetries : 0..MaxRetriesOverride, initialDelay : {500}, maxDelay : {1500},
     backoffMultiplier : {3}]

\* Partial<RetryConfig>: any subset of the fields
Overrides ==
    { [f \in D |-> o[f]] : o \in OverrideValues, D \in SUBSET ConfigFields }

\* { ...DEFAULT_RETRY_CONFIG, ...config }
MergeConfig(defaults, config) ==
    [f \in DOMAIN defaults |-> IF f \in DOMAIN config THEN config[f] ELSE defaults[f]]

calculateBackoffCapMax(attemptIx, config) ==
    Max(config.initialDelay * Pow(config.backoffMultiplier, attemptIx), config.maxDelay)

calculateBackoff(attemptIx, config) ==
    LET delay == config.initialDelay * Pow(config.backoffMultiplier, attemptIx)
    IN  Min(delay, config.maxDelay)

\* a classifier that fails open: it retries all but the 4xx it knows
isRetryableErrorFailOpen(error) ==
    ~(isApiError(error) /\ error.status >= 400 /\ error.status < 500
        /\ error.status # 429 /\ error.status # 408)

isRetryableErrorNo408(error) ==
    \/ isNetworkError(error)
    \/ isApiError(error) /\ error.status >= 500 /\ error.status < 600
    \/ isApiError(error) /\ error.status = 429

isRetryableError(error) ==
    IF isNetworkError(error) THEN TRUE
    ELSE IF isApiError(error) /\ error.status >= 500 /\ error.status < 600 THEN TRUE
    ELSE IF isApiError(error) /\ error.status = 429 THEN TRUE
    ELSE IF isApiError(error) /\ error.status = 408 THEN TRUE
    ELSE FALSE

(***************************************************************************)
(* fetchWithRetry.  The body runs synchronously up to its first await, so  *)
(* the call itself evaluates the loop guard and invokes fn; each later     *)
(* action is one continuation of the async function.                       *)
(***************************************************************************)
\* the second invocation before it is called
PeerIdle ==
    [rpc |-> "idle", retryConfig |-> DEFAULT_RETRY_CONFIG, attempt |-> 0,
     lastError |-> UndefinedFailure, rresult |-> NoValue, calls |-> 0, errs |-> <<>>]

RetryInit ==
    /\ rpc = "idle"
    /\ peer = PeerIdle
    /\ retryConfig = DEFAULT_RETRY_CONFIG
    /\ attempt = 0
    /\ lastError = UndefinedFailure
    /\ rresult = NoValue
    /\ okValue = NoValue
    /\ calls = 0
    /\ errs = <<>>
    /\ delays = <<>>
    /\ defaultConfig = DEFAULT_RETRY_CONFIG
    /\ configArg = <<>>
    /\ overridden = FALSE

\* what outlives one call of fetchWithRetry
acrossCalls == <<defaultConfig, configArg, overridden>>

\* the head of the for loop with the loop variable at a: invoke fn, or leave
\* the loop and throw lastError
LoopHead(a, le) ==
    IF a <= retryConfig'.maxRetries
    THEN /\ rpc' = "awaitFn"
         /\ calls' = calls + 1
         /\ rresult' = rresult
    ELSE /\ rpc' = "thrown"
         /\ calls' = calls
         /\ rresult' = le

\* a call whose merge writes the overrides into the module-level defaults,
\* as Object.assign(DEFAULT_RETRY_CONFIG, config) does
FetchWithRetryAssign(config) ==
    /\ rpc \in {"idle", "returned", "thrown"}
    /\ configArg' = config
    /\ overridden' = (overridden \/ (rpc # "idle" /\ configArg # <<>>))
    /\ defaultConfig' = MergeConfig(defaultConfig, config)
    /\ retryConfig' = defaultConfig'
    /\ attempt' = 0
    /\ lastError' = UndefinedFailure
    /\ okValue' = NoValue
    /\ errs' = <<>>
    /\ delays' = <<>>
    /\ rresult' = NoValue
    /\ IF 0 <= retryConfig'.maxRetries
       THEN rpc' = "awaitFn" /\ calls' = 1
       ELSE rpc' = "thrown" /\ calls' = 0

\* fetchWithRetry(fn, config): a first call, or a call made after an earlier
\* one has settled; the locals of the call start afresh
FetchWithRetry(config) ==
    /\ rpc \in {"idle", "returned", "thrown"}
    /\ configArg' = config
    /\ overridden' = (overridden \/ (rpc # "idle" /\ configArg # <<>>))
    /\ defaultConfig' = defaultConfig
    /\ retryConfig' = MergeConfig(defaultConfig, config)
    /\ attempt' = 0
    /\ lastError' = UndefinedFailure
    /\ okValue' = NoValue
    /\ errs' = <<>>
    /\ delays' = <<>>
    /\ rresult' = NoValue
    /\ IF 0 <= retryConfig'.maxRetries
       THEN rpc' = "awaitFn" /\ calls' = 1
       ELSE rpc' = "thrown" /\ calls' = 0

\* await fn() fulfils, mutated: the value is kept but the loop goes on
FnResolveKeepLooping(v) ==
    /\ rpc = "awaitFn"
    /\ okValue' = v
    /\ retryConfig' = retryConfig
    /\ attempt' = attempt + 1
    /\ IF attempt + 1 <= retryConfig.maxRetries
       THEN rpc' = "awaitFn" /\ calls' = calls + 1 /\ rresult' = rresult
       ELSE rpc' = "returned" /\ calls' = calls /\ rresult' = v
    /\ UNCHANGED <<lastError, errs, delays, acrossCalls>>

\* await fn() fulfils: return its value
FnResolve(v) ==
    /\ rpc = "awaitFn"
    /\ okValue' = v
    /\ rpc' = "returned"
    /\ rresult' = v
    /\ UNCHANGED <<retryConfig, attempt, lastError, calls, errs, delays, acrossCalls>>

\* the catch block, mutated: the delay is computed for the attempt to come
CatchBackoffNextIndex(error) ==
    /\ lastError' = error
    /\ errs' = Append(errs, error)
    /\ IF ~isRetryableError(error) \/ attempt = retryConfig.maxRetries
       THEN /\ rpc' = "thrown"
            /\ rresult' = error
            /\ delays' = delays
       ELSE /\ rpc' = "sleep"
            /\ rresult' = rresult
            /\ delays' = Append(delays, calculateBackoff(attempt + 1, retryConfig))

\* the catch block, mutated: when the budget is spent the loop is left
\* without a throw and the call returns undefined
CatchReturnsWhenSpent(error) ==
    /\ lastError' = error
    /\ errs' = Append(errs, error)
    /\ IF ~isRetryableError(error)
       THEN /\ rpc' = "thrown"
            /\ rresult' = error
            /\ delays' = delays
       ELSE IF attempt = retryConfig.maxRetries
       THEN /\ rpc' = "returned"
            /\ rresult' = NoValue
            /\ delays' = delays
       ELSE /\ rpc' = "sleep"
            /\ rresult' = rresult
            /\ delays' = Append(delays, calculateBackoff(attempt, retryConfig))

\* the catch block, mutated: one more delay before the budget is found spent
CatchOneMore(error) ==
    /\ lastError' = error
    /\ errs' = Append(errs, error)
    /\ IF ~isRetryableError(error) \/ attempt = retryConfig.maxRetries + 1
       THEN /\ rpc' = "thrown"
            /\ rresult' = error
            /\ delays' = delays
       ELSE /\ rpc' = "sleep"
            /\ rresult' = rresult
            /\ delays' = Append(delays, calculateBackoff(attempt, retryConfig))

\* the catch block, mutated: the budget check is off by one
CatchOneFewer(error) ==
    /\ lastError' = error
    /\ errs' = Append(errs, error)
    /\ IF ~isRetryableError(error) \/ attempt = retryConfig.maxRetries - 1
       THEN /\ rpc' = "thrown"
            /\ rresult' = error
            /\ delays' = delays
       ELSE /\ rpc' = "sleep"
            /\ rresult' = rresult
            /\ delays' = Append(delays, calculateBackoff(attempt, retryConfig))

\* the catch block, mutated: every failure is retried
CatchRetryAll(error) ==
    /\ lastError' = error
    /\ errs' = Append(errs, error)
    /\ IF attempt = retryConfig.maxRetries
       THEN /\ rpc' = "thrown"
            /\ rresult' = error
            /\ delays' = delays
       ELSE /\ rpc' = "sleep"
            /\ rresult' = rresult
            /\ delays' = Append(delays, calculateBackoff(attempt, retryConfig))

\* the catch block, mutated: the first failure is kept and thrown
CatchFirstError(error) ==
    /\ lastError' = (IF errs = <<>> THEN error ELSE lastError)
    /\ errs' = Append(errs, error)
    /\ IF ~isRetryableError(error) \/ attempt = retryConfig.maxRetries
       THEN /\ rpc' = "thrown"
            /\ rresult' = lastError'
            /\ delays' = delays
       ELSE /\ rpc' = "sleep"
            /\ rresult' = rresult
            /\ delays' = Append(delays, calculateBackoff(attempt, retryConfig))

\* the catch block: lastError = error; throw when not retryable or on the
\* last attempt; otherwise compute the delay, log it and start the timer
Catch(error) ==
    /\ lastError' = error
    /\ errs' = Append(errs, error)
    /\ IF ~isRetryableError(error)
       THEN /\ rpc' = "thrown"
            /\ rresult' = error
            /\ delays' = delays
       ELSE IF attempt = retryConfig.maxRetries
       THEN /\ rpc' = "thrown"
            /\ rresult' = error
            /\ delays' = delays
       ELSE /\ rpc' = "sleep"
            /\ rresult' = rresult
            /\ delays' = Append(delays, calculateBackoff(attempt, retryConfig))

\* await fn() rejects
FnReject(error) ==
    /\ rpc = "awaitFn"
    /\ Catch(error)
    /\ UNCHANGED <<retryConfig, attempt, okValue, calls, acrossCalls>>

\* the backoff timer fires: attempt++, back to the head of the loop
BackoffElapsed ==
    /\ rpc = "sleep"
    /\ retryConfig' = retryConfig
    /\ attempt' = attempt + 1
    /\ LoopHead(attempt + 1, lastError)
    /\ UNCHANGED <<lastError, okValue, errs, delays, acrossCalls>>

(***************************************************************************)
(* The other components before they are used.                              *)
(***************************************************************************)
RaceInit ==
    /\ opState = "none"
    /\ opValue = NoValue
    /\ opSettledAt = -1
    /\ timerState = "none"
    /\ opAtFire = "none"
    /\ raceState = "none"
    /\ raceValue = NoValue
    /\ ms = 0
    /\ message = NoValue
    /\ now = 0

CacheInit ==
    /\ cache = <<>>
    /\ maxSize = 1
    /\ ret = [op |-> "new", value |-> <<>>]
    /\ log = <<>>
    /\ logOverflow = FALSE
    /\ births = <<>>
    /\ cleared = FALSE

FnInit ==
    /\ fnIn = NoValue
    /\ fnOut = <<>>

\* the hooks not mounted, no controller created
DebounceIdle ==
    /\ unmounted = FALSE
    /\ atCall = NoValue
    /\ timeoutRef = 0
    /\ callbackRef = NoValue
    /\ dTimers = {}
    /\ dDelay = 0
    /\ dNow = 0
    /\ dCalls = <<>>
    /\ dDelivered = <<>>

ThrottleIdle ==
    /\ inThrottle = FALSE
    /\ thCallbackRef = NoValue
    /\ thTimers = {}
    /\ limit = 0
    /\ thNow = 0
    /\ thCalls = <<>>
    /\ thDelivered = <<>>

AbortIdle ==
    /\ controller = "none"
    /\ abTimer = "none"
    /\ timeoutMs = 0
    /\ abNow = 0
    /\ abExplicit = FALSE

TimersIdle == DebounceIdle /\ ThrottleIdle /\ AbortIdle

(***************************************************************************)
(* Specification of fetchWithRetry.                                        *)
(***************************************************************************)
Init == RetryInit /\ RaceInit /\ CacheInit /\ FnInit /\ TimersIdle

\* one call of fetchWithRetry
Next ==
    \/ \E config \in Overrides :
          rpc = "idle" /\ FetchWithRetry(config) /\ UNCHANGED notRetry
    \/ \E v \in OpValues :
          FnResolve(v) /\ UNCHANGED notRetry
    \/ \E error \in OpFailures :
          FnReject(error) /\ UNCHANGED notRetry
    \/ BackoffElapsed /\ UNCHANGED notRetry

Spec == Init /\ [][Next]_vars

(***************************************************************************)
(* Properties of fetchWithRetry.                                           *)
(***************************************************************************)
AllRetryable(es) == \A i \in 1..Len(es) : isRetryableError(es[i])

\* C1: an operation that fails retryably on every attempt is invoked exactly
\* maxRetries + 1 times (once when maxRetries = 0), never more while the call
\* runs, and the call then fails with the failure of the last attempt.
C1_RetryableExhaustsBudget ==
    AllRetryable(errs) =>
        /\ calls <= retryConfig.maxRetries + 1
        /\ rpc = "thrown" =>
              /\ calls = retryConfig.maxRetries + 1
              /\ Len(errs) = retryConfig.maxRetries + 1
              /\ rresult = errs[retryConfig.maxRetries + 1]

C1_Witness ==
    /\ rpc = "thrown"
    /\ AllRetryable(errs)
    /\ retryConfig.maxRetries = 3
    /\ calls = 4
    /\ errs[1] # errs[4]

C1_WitnessZero ==
    /\ rpc = "thrown"
    /\ AllRetryable(errs)
    /\ retryConfig.maxRetries = 0
    /\ calls = 1

\* C2: once an attempt has failed with a non-retryable failure the call has
\* failed with that very failure, no delay was scheduled for it and fn is not
\* invoked again; if the first failure is non-retryable, fn was invoked once.
C2_NonRetryableFailsAtOnce ==
    (errs # <<>> /\ ~isRetryableError(errs[Len(errs)])) =>
        /\ rpc = "thrown"
        /\ rresult = errs[Len(errs)]
        /\ calls = Len(errs)
        /\ Len(delays) = Len(errs) - 1
        /\ ~isRetryableError(errs[1]) => (calls = 1 /\ delays = <<>>)

C2_Witness ==
    /\ rpc = "thrown"
    /\ Len(errs) = 1
    /\ ~isRetryableError(errs[1])
    /\ retryConfig.maxRetries = MaxRetriesOverride
    /\ calls = 1

\* C3: once fn has fulfilled, after k retryable failures (k <= maxRetries),
\* the call has returned that value after exactly k + 1 invocations and k
\* delays, and nothing is invoked or scheduled afterwards.
C3_SuccessReturnsAtOnce ==
    (okValue # NoValue \/ rpc = "returned") =>
        /\ rpc = "returned"
        /\ rresult = okValue
        /\ okValue \in OpValues
        /\ AllRetryable(errs)
        /\ Len(errs) <= retryConfig.maxRetries
        /\ calls = Len(errs) + 1
        /\ Len(delays) = Len(errs)

C3_Witness ==
    /\ rpc = "returned"
    /\ retryConfig.maxRetries >= 1
    /\ Len(errs) = 1
    /\ calls = 2
    /\ rresult = "v2"

\* C4: a failed call raises the failure of its final attempt, unchanged, on
\* the non-retryable path and on the budget-exhausted path.
C4_ThrowsLastFailure ==
    rpc = "thrown" =>
        /\ errs # <<>>
        /\ rresult = errs[Len(errs)]
        /\ rresult = lastError

C4_Witness ==
    /\ rpc = "thrown"
    /\ Len(errs) = retryConfig.maxRetries + 1
    /\ Len(errs) >= 2
    /\ errs[1] # errs[Len(errs)]
    /\ rresult = ApiFailure(503, "m2")

(***************************************************************************)
(* Specification of calculateBackoff: the arguments are drawn, the         *)
(* function is applied.                                                    *)
(***************************************************************************)
\* the policies a call site can end up with
Policies == { MergeConfig(DEFAULT_RETRY_CONFIG, o) : o \in Overrides }

BackoffInit ==
    /\ fnIn \in [attempt : 0..MaxAttempt, config : Policies]
    /\ fnOut = <<>>

ApplyBackoff ==
    /\ fnOut = <<>>
    /\ fnOut' = <<calculateBackoff(fnIn.attempt, fnIn.config)>>
    /\ fnIn' = fnIn

\* the next application, on the following attempt index
NextAttempt ==
    /\ fnOut # <<>>
    /\ fnIn.attempt < MaxAttempt
    /\ fnIn' = [fnIn EXCEPT !.attempt = @ + 1]
    /\ fnOut' = <<>>

InitBackoff == RetryInit /\ RaceInit /\ CacheInit /\ BackoffInit /\ TimersIdle

NextBackoff ==
    \/ ApplyBackoff /\ UNCHANGED notFn
    \/ NextAttempt /\ UNCHANGED notFn

SpecBackoff == InitBackoff /\ [][NextBackoff]_vars

RECURSIVE Scaled(_, _)
\* initialDelay * backoffMultiplier^a, by repeated multiplication
Scaled(config, a) ==
    IF a = 0 THEN config.initialDelay
    ELSE Scaled(config, a - 1) * config.backoffMultiplier

\* the delays of the default policy, as section 8 of the specification lists them
DefaultDelays == <<1000, 2000, 4000, 8000, 10000, 10000>>

\* C5: calculateBackoff(attempt, policy) is min(initialDelay *
\* backoffMultiplier^attempt, maxDelay); it never exceeds maxDelay, is
\* non-decreasing in attempt, and the default policy gives 1000, 2000, 4000,
\* 8000, 10000, 10000, ...
C5_BackoffFormula ==
    fnOut # <<>> =>
        LET a == fnIn.attempt
            c == fnIn.config
            d == fnOut[1]
        IN  /\ d = (IF Scaled(c, a) <= c.maxDelay THEN Scaled(c, a) ELSE c.maxDelay)
            /\ d <= c.maxDelay
            /\ \A b \in 0..a : calculateBackoff(b, c) <= d
            /\ c = DEFAULT_RETRY_CONFIG =>
                  d = (IF a < Len(DefaultDelays) THEN DefaultDelays[a + 1] ELSE 10000)

C5_Witness ==
    /\ fnOut = <<10000>>
    /\ fnIn.attempt = 4
    /\ fnIn.config = DEFAULT_RETRY_CONFIG

(***************************************************************************)
(* Specification of isRetryableError: a failure is drawn, the classifier   *)
(* is applied.                                                             *)
(***************************************************************************)
ClassifyInit ==
    /\ fnIn \in AllFailures
    /\ fnOut = <<>>

ApplyClassifier ==
    /\ fnOut = <<>>
    /\ fnOut' = <<isRetryableError(fnIn)>>
    /\ fnIn' = fnIn

InitClassify == RetryInit /\ RaceInit /\ CacheInit /\ ClassifyInit /\ TimersIdle

NextClassify == ApplyClassifier /\ UNCHANGED notFn

SpecClassify == InitClassify /\ [][NextClassify]_vars

\* C6: a failure is retryable exactly when it is a network-level failure or
\* carries a status in 500..599, 429 or 408; 400, 401, 403, 404, 499 and 600
\* are not retryable.
C6_ClassifierTable ==
    fnOut # <<>> =>
        /\ fnOut[1] = ( \/ fnIn.shape = "network"
                        \/ /\ fnIn.shape = "api"
                           /\ \/ fnIn.status \in 500..599
                              \/ fnIn.status = 429
                              \/ fnIn.status = 408 )
        /\ (fnIn.shape = "api" /\ fnIn.status \in {400, 401, 403, 404, 499, 600})
              => fnOut[1] = FALSE

C6_Witness ==
    /\ fnIn = ApiFailure(408, "m1")
    /\ fnOut = <<TRUE>>

(***************************************************************************)
(* timeout and withTimeout.  Time is the host's clock in ms since the      *)
(* call; the timer of timeout() fires when its ms have elapsed, and the    *)
(* clock does not pass a timer that is due.  Promise reactions run before  *)
(* the next timer callback, so the event that settles first decides the    *)
(* race.                                                                   *)
(***************************************************************************)
\* the ms a caller passes
TimeoutValues == 0..(MaxTime - 1)

\* Promise.race, mutated: a later settlement replaces the outcome
PromiseRaceLastWins(state, value) ==
    /\ raceState' = state
    /\ raceValue' = value

\* Promise.race([promise, timeout(ms, message)]): the first input to settle
\* settles the returned promise; later settlements are ignored
PromiseRace(state, value) ==
    IF raceState = "pending"
    THEN /\ raceState' = state
         /\ raceValue' = value
    ELSE UNCHANGED <<raceState, raceValue>>

\* the failure of timeout(), mutated: the caller's message is ignored
TimeoutFailureDefaultOnly(msg) == Error("Request timeout")

\* the failure timeout(ms, message = 'Request timeout') rejects with
TimeoutFailure(msg) == Error(IF msg = NoValue THEN "Request timeout" ELSE msg)

\* withTimeout(promise, ms, message): timeout() starts its timer, the race is on
WithTimeout(m, msg) ==
    /\ opState = "none"
    /\ opState' = "pending"
    /\ timerState' = "pending"
    /\ raceState' = "pending"
    /\ ms' = m
    /\ message' = msg
    /\ now' = 0
    /\ UNCHANGED <<opValue, opSettledAt, opAtFire, raceValue>>

\* the raced promise fulfils
OpFulfil(v) ==
    /\ opState = "pending"
    /\ opState' = "fulfilled"
    /\ opValue' = v
    /\ opSettledAt' = now
    /\ PromiseRace("fulfilled", v)
    /\ UNCHANGED <<timerState, opAtFire, ms, message, now>>

\* the raced promise rejects
OpReject(error) ==
    /\ opState = "pending"
    /\ opState' = "rejected"
    /\ opValue' = error
    /\ opSettledAt' = now
    /\ PromiseRace("rejected", error)
    /\ UNCHANGED <<timerState, opAtFire, ms, message, now>>

\* the callback of setTimeout in timeout(): reject(new Error(message))
TimerFire ==
    /\ timerState = "pending"
    /\ now >= ms
    /\ timerState' = "fired"
    /\ opAtFire' = opState
    /\ PromiseRace("rejected", TimeoutFailure(message))
    /\ UNCHANGED <<opState, opValue, opSettledAt, ms, message, now>>

\* one ms passes
Tick ==
    /\ opState # "none"
    /\ now < MaxTime
    /\ ~(timerState = "pending" /\ now >= ms)
    /\ now' = now + 1
    /\ UNCHANGED <<opState, opValue, opSettledAt, timerState, opAtFire, raceState,
                   raceValue, ms, message>>

InitRace == RetryInit /\ RaceInit /\ CacheInit /\ FnInit /\ TimersIdle

NextRace ==
    \/ \E m \in TimeoutValues, msg \in Messages \cup {NoValue} :
          WithTimeout(m, msg) /\ UNCHANGED notRace
    \/ \E v \in OpValues :
          OpFulfil(v) /\ UNCHANGED notRace
    \/ \E error \in OpFailures :
          OpReject(error) /\ UNCHANGED notRace
    \/ TimerFire /\ UNCHANGED notRace
    \/ Tick /\ UNCHANGED notRace

SpecRace == InitRace /\ [][NextRace]_vars

\* C7: if the operation settles before ms has elapsed, withTimeout settles
\* with the operation's outcome, its value or its failure unchanged, and the
\* outcome stays when the timer fires later.
C7_OperationWins ==
    (opState \in {"fulfilled", "rejected"} /\ opSettledAt < ms) =>
        /\ raceState = opState
        /\ raceValue = opValue

C7_Witness ==
    /\ opState = "rejected"
    /\ opSettledAt < ms
    /\ timerState = "fired"
    /\ raceState = "rejected"
    /\ raceValue = ApiFailure(404, "m1")

C7_WitnessFulfilled ==
    /\ opState = "fulfilled"
    /\ opSettledAt < ms
    /\ timerState = "fired"
    /\ raceState = "fulfilled"
    /\ raceValue = "v1"

\* C8: if ms elapses while the operation is still pending, withTimeout fails
\* with an Error carrying the caller's message, 'Request timeout' when none
\* was given, and a later success or failure of the operation does not
\* change that outcome.
C8_TimeoutWins ==
    /\ (timerState = "fired" /\ opAtFire = "pending") =>
          /\ raceState = "rejected"
          /\ raceValue = Error(IF message = NoValue THEN "Request timeout" ELSE message)
    /\ (opState = "pending" /\ now > ms) => raceState = "rejected"

C8_Witness ==
    /\ timerState = "fired"
    /\ opAtFire = "pending"
    /\ opState = "fulfilled"
    /\ message = "m2"
    /\ raceState = "rejected"
    /\ raceValue = Error("m2")

C8_WitnessDefault ==
    /\ timerState = "fired"
    /\ opAtFire = "pending"
    /\ opState = "rejected"
    /\ message = NoValue
    /\ raceValue = Error("Request timeout")

(***************************************************************************)
(* MemoCache.  The private Map is the sequence of its entries in insertion *)
(* order, which is the order Map.prototype.keys() iterates in.             *)
(***************************************************************************)
\* the JavaScript value undefined as a key: a Map accepts it like any other
UndefinedKey == 0

\* keys K: undefined, and enough others to overfill every capacity together
\* with it
Keys == {UndefinedKey} \cup (1..MaxCapacity)

\* values V
CacheValues == {"x", "y"}

\* the history keeps at most this many sets
MaxLog == MaxCapacity + 1

KeysOf(c) == {c[i].key : i \in 1..Len(c)}

\* Map.prototype.has
MapHas(c, k) == k \in KeysOf(c)

\* Map.prototype.get: <<value>>, or <<>> for undefined
MapGet(c, k) ==
    IF MapHas(c, k)
    THEN <<c[CHOOSE i \in 1..Len(c) : c[i].key = k].value>>
    ELSE <<>>

\* Map.prototype.set: a present key keeps its place, a new key goes last
MapSet(c, k, v) ==
    IF MapHas(c, k)
    THEN [i \in 1..Len(c) |-> IF c[i].key = k THEN [key |-> k, value |-> v] ELSE c[i]]
    ELSE Append(c, [key |-> k, value |-> v])

\* Map.prototype.delete
MapDelete(c, k) == SelectSeq(c, LAMBDA e : e.key # k)

\* this.cache.keys().next().value: the first key, undefined for an empty Map
FirstKey(c) == IF c = <<>> THEN UndefinedKey ELSE c[1].key

\* new MemoCache(maxSize)
CacheNew ==
    /\ cache = <<>>
    /\ maxSize \in 1..MaxCapacity
    /\ ret = [op |-> "new", value |-> <<>>]
    /\ log = <<>>
    /\ logOverflow = FALSE
    /\ births = <<>>
    /\ cleared = FALSE

\* a get that moves the key it reads to the back of the store
CacheGetTouch(k) ==
    /\ ret' = [op |-> "get", key |-> k, value |-> MapGet(cache, k)]
    /\ cache' = IF MapHas(cache, k)
                THEN Append(MapDelete(cache, k),
                            [key |-> k, value |-> MapGet(cache, k)[1]])
                ELSE cache
    /\ UNCHANGED <<maxSize, log, logOverflow, births, cleared>>

\* get(key)
CacheGet(k) ==
    /\ ret' = [op |-> "get", key |-> k, value |-> MapGet(cache, k)]
    /\ UNCHANGED <<cache, maxSize, log, logOverflow, births, cleared>>

\* the eviction step of set: when the store is full, delete the first key
\* unless keys().next().value is undefined
Evict(c) ==
    IF Len(c) >= maxSize
    THEN LET firstKey == FirstKey(c)
         IN  IF firstKey # UndefinedKey THEN MapDelete(c, firstKey) ELSE c
    ELSE c

\* set(key, value)
CacheSet(k, v) ==
    /\ cache' = MapSet(Evict(cache), k, v)
    /\ ret' = [op |-> "set", key |-> k, value |-> <<>>]
    /\ IF ~logOverflow /\ Len(log) < MaxLog
       THEN log' = Append(log, <<k, v>>) /\ logOverflow' = FALSE
       ELSE log' = <<>> /\ logOverflow' = TRUE
    /\ LET kept == Evict(cache)
           gone == KeysOf(cache) \ KeysOf(kept)
       IN  births' = SelectSeq(births, LAMBDA b : b \notin gone)
                       \o (IF MapHas(kept, k) THEN <<>> ELSE <<k>>)
    /\ UNCHANGED <<maxSize, cleared>>

\* a has that removes the key it finds
CacheHasForgets(k) ==
    /\ ret' = [op |-> "has", key |-> k, value |-> <<MapHas(cache, k)>>]
    /\ cache' = MapDelete(cache, k)
    /\ UNCHANGED <<maxSize, log, logOverflow, births, cleared>>

\* has(key)
CacheHas(k) ==
    /\ ret' = [op |-> "has", key |-> k, value |-> <<MapHas(cache, k)>>]
    /\ UNCHANGED <<cache, maxSize, log, logOverflow, births, cleared>>

\* a clear that only empties a full store
CacheClearIfFull ==
    /\ cache' = IF Len(cache) >= maxSize THEN <<>> ELSE cache
    /\ ret' = [op |-> "clear", value |-> <<>>]
    /\ log' = <<>>
    /\ logOverflow' = FALSE
    /\ births' = <<>>
    /\ cleared' = TRUE
    /\ UNCHANGED maxSize

\* clear()
CacheClear ==
    /\ cache' = <<>>
    /\ ret' = [op |-> "clear", value |-> <<>>]
    /\ log' = <<>>
    /\ logOverflow' = FALSE
    /\ births' = <<>>
    /\ cleared' = TRUE
    /\ UNCHANGED maxSize

InitCache == RetryInit /\ RaceInit /\ CacheNew /\ FnInit /\ TimersIdle

NextCache ==
    \/ \E k \in Keys : CacheGet(k) /\ UNCHANGED notCache
    \/ \E k \in Keys, v \in CacheValues :
          CacheSet(k, v) /\ UNCHANGED notCache
    \/ \E k \in Keys : CacheHas(k) /\ UNCHANGED notCache
    \/ CacheClear /\ UNCHANGED notCache

SpecCache == InitCache /\ [][NextCache]_vars

\* the history is the insertion of maxSize + 1 distinct keys into the empty store
OverfilledByOne ==
    /\ ~logOverflow
    /\ Len(log) = maxSize + 1
    /\ \A i, j \in 1..Len(log) : i # j => log[i][1] # log[j][1]

\* C9: a MemoCache constructed with maxSize >= 1 never holds more than
\* maxSize entries, whatever get, set, has and clear were applied.
C9_SizeAtMostMaxSize == Len(cache) <= maxSize

\* C10: after inserting maxSize + 1 distinct keys into an empty MemoCache it
\* holds exactly maxSize entries: the first-inserted key is absent and each
\* of the others is present with the value set.
C10_OverfillEvictsFirst ==
    OverfilledByOne =>
        /\ Len(cache) = maxSize
        /\ ~MapHas(cache, log[1][1])
        /\ \A i \in 2..Len(log) :
              MapHas(cache, log[i][1]) /\ MapGet(cache, log[i][1]) = <<log[i][2]>>

\* The two statements above fail only through the key undefined: they hold
\* of every store and history that the key undefined is not part of.
SizeAtMostMaxSizeDefinedKeys ==
    UndefinedKey \notin KeysOf(cache) => Len(cache) <= maxSize

OverfillEvictsFirstDefinedKeys ==
    (OverfilledByOne /\ \A i \in 1..Len(log) : log[i][1] # UndefinedKey) =>
        /\ Len(cache) = maxSize
        /\ ~MapHas(cache, log[1][1])
        /\ \A i \in 2..Len(log) :
              MapHas(cache, log[i][1]) /\ MapGet(cache, log[i][1]) = <<log[i][2]>>

\* the keys of a store in eviction order
KeyOrder(c) == [i \in 1..Len(c) |-> c[i].key]

\* the history holds distinct keys only
DistinctLog == \A i, j \in 1..Len(log) : i # j => log[i][1] # log[j][1]

C12_UpdateKeepsOrder ==
    [][ (ret'.op = "set" /\ MapHas(cache, ret'.key)) =>
          /\ MapHas(cache', ret'.key)
          /\ LET both == KeysOf(cache) \cap KeysOf(cache')
             IN  SelectSeq(KeyOrder(cache'), LAMBDA k : k \in both)
                   = SelectSeq(KeyOrder(cache), LAMBDA k : k \in both) ]_vars

\* The update keeps the order whenever the eviction step of set does not run
\* or is skipped: below capacity, and when the first key is undefined.
UpdateKeepsOrderWithoutEviction ==
    [][ (ret'.op = "set" /\ MapHas(cache, ret'.key) /\ Evict(cache) = cache) =>
          KeyOrder(cache') = KeyOrder(cache) ]_vars

\* C13: clear empties the store whatever it held: right after it no key is
\* present and get finds nothing, and the next maxSize distinct insertions
\* are all stored, none of them evicted.
C13_ClearEmpties ==
    /\ ret.op = "clear" =>
          /\ cache = <<>>
          /\ \A k \in Keys : ~MapHas(cache, k) /\ MapGet(cache, k) = <<>>
    /\ (cleared /\ ~logOverflow /\ Len(log) <= maxSize /\ DistinctLog) =>
          /\ Len(cache) = Len(log)
          /\ \A i \in 1..Len(log) : MapGet(cache, log[i][1]) = <<log[i][2]>>

\* a cleared store that was filled again to its capacity of two or more
C13_Witness ==
    /\ cleared
    /\ maxSize >= 2
    /\ ~logOverflow /\ Len(log) = maxSize /\ DistinctLog
    /\ Len(cache) = maxSize

(***************************************************************************)
(* calculateVisibleRange and useVirtualList: the window of a virtualized   *)
(* list. Lengths and offsets are whole pixels.                             *)
(***************************************************************************)
\* bounds of the arguments drawn
MaxItems == 5
MaxItemHeight == 3
MaxContainer == 4
MaxScroll == 5
MaxOverscan == 3

\* overscan = 3
DefaultOverscan == 3

\* Math.floor(a / b) for b > 0
Floor(a, b) == a \div b

\* Math.ceil(a / b) for b > 0
Ceil(a, b) == -((-a) \div b)

\* a window whose end is rounded down instead of up
calculateVisibleRangeFloorEnd(totalItems, itemHeight, containerHeight, scrollTop, overscan) ==
    LET startIndex == Max(0, Floor(scrollTop, itemHeight) - overscan)
        endIndex   == Min(totalItems - 1,
                          Floor(scrollTop + containerHeight, itemHeight) + overscan)
    IN  [startIndex |-> startIndex, endIndex |-> endIndex,
         offsetY |-> startIndex * itemHeight]

\* a window whose start is not clamped at 0
calculateVisibleRangeNoClamp(totalItems, itemHeight, containerHeight, scrollTop, overscan) ==
    LET startIndex == Floor(scrollTop, itemHeight) - overscan
        endIndex   == Min(totalItems - 1,
                          Ceil(scrollTop + containerHeight, itemHeight) + overscan)
    IN  [startIndex |-> startIndex, endIndex |-> endIndex,
         offsetY |-> startIndex * itemHeight]

\* a window that starts one item too early
calculateVisibleRangeStartEarly(totalItems, itemHeight, containerHeight, scrollTop, overscan) ==
    LET startIndex == Max(0, Floor(scrollTop, itemHeight) - overscan - 1)
        endIndex   == Min(totalItems - 1,
                          Ceil(scrollTop + containerHeight, itemHeight) + overscan)
    IN  [startIndex |-> startIndex, endIndex |-> endIndex,
         offsetY |-> startIndex * itemHeight]

\* a window whose start is rounded up instead of down
calculateVisibleRangeCeilStart(totalItems, itemHeight, containerHeight, scrollTop, overscan) ==
    LET startIndex == Max(0, Ceil(scrollTop, itemHeight) - overscan)
        endIndex   == Min(totalItems - 1,
                          Ceil(scrollTop + containerHeight, itemHeight) + overscan)
    IN  [startIndex |-> startIndex, endIndex |-> endIndex,
         offsetY |-> startIndex * itemHeight]

\* a window whose end is not capped at the last item
calculateVisibleRangeNoCap(totalItems, itemHeight, containerHeight, scrollTop, overscan) ==
    LET startIndex == Max(0, Floor(scrollTop, itemHeight) - overscan)
        endIndex   == Ceil(scrollTop + containerHeight, itemHeight) + overscan
    IN  [startIndex |-> startIndex, endIndex |-> endIndex,
         offsetY |-> startIndex * itemHeight]

\* a window whose end is capped at totalItems instead of totalItems - 1
calculateVisibleRangeCapAtCount(totalItems, itemHeight, containerHeight, scrollTop, overscan) ==
    LET startIndex == Max(0, Floor(scrollTop, itemHeight) - overscan)
        endIndex   == Min(totalItems,
                          Ceil(scrollTop + containerHeight, itemHeight) + overscan)
    IN  [startIndex |-> startIndex, endIndex |-> endIndex,
         offsetY |-> startIndex * itemHeight]

calculateVisibleRange(totalItems, itemHeight, containerHeight, scrollTop, overscan) ==
    LET startIndex == Max(0, Floor(scrollTop, itemHeight) - overscan)
        endIndex   == Min(totalItems - 1,
                          Ceil(scrollTop + containerHeight, itemHeight) + overscan)
        offsetY    == startIndex * itemHeight
    IN  [startIndex |-> startIndex, endIndex |-> endIndex, offsetY |-> offsetY]

\* the arguments: small ones, the values of the documented example, and an
\* overscan that is passed (<<n>>) or left out (<<>>)
ItemCounts       == (0..MaxItems) \cup {100}
ItemHeights      == (1..MaxItemHeight) \cup {40}
ContainerHeights == (0..MaxContainer) \cup {400}
ScrollTops       == ((-MaxScroll)..MaxScroll) \cup {400}
Overscans        == {<<>>} \cup { <<n>> : n \in 0..MaxOverscan }

\* the overscan a call runs with
OverscanOf(in) == IF in.overscan = <<>> THEN DefaultOverscan ELSE in.overscan[1]

RangeInit ==
    /\ fnIn \in [totalItems : ItemCounts, itemHeight : ItemHeights,
                 containerHeight : ContainerHeights, scrollTop : ScrollTops,
                 overscan : Overscans]
    /\ fnOut = <<>>

\* calculateVisibleRange(totalItems, itemHeight, containerHeight, scrollTop[, overscan])
ApplyVisibleRange ==
    /\ fnOut = <<>>
    /\ fnOut' = <<calculateVisibleRange(fnIn.totalItems, fnIn.itemHeight,
                                        fnIn.containerHeight, fnIn.scrollTop,
                                        OverscanOf(fnIn))>>
    /\ fnIn' = fnIn

\* useVirtualList: handleScroll stores the new scrollTop and the render that
\* follows computes the window again, without an overscan argument
handleScroll(top) ==
    /\ fnOut # <<>>
    /\ fnIn.overscan = <<>>
    /\ fnIn' = [fnIn EXCEPT !.scrollTop = top]
    /\ fnOut' = <<calculateVisibleRange(fnIn.totalItems, fnIn.itemHeight,
                                        fnIn.containerHeight, top,
                                        DefaultOverscan)>>

InitRange == RetryInit /\ RaceInit /\ CacheInit /\ RangeInit /\ TimersIdle

NextRange ==
    \/ ApplyVisibleRange /\ UNCHANGED notFn
    \/ \E top \in ScrollTops : handleScroll(top) /\ UNCHANGED notFn

SpecRange == InitRange /\ [][NextRange]_vars

\* the quotients a / b that lie within the arguments drawn
Quotients == (-(2 * 400))..(2 * 400)

\* C14: for itemHeight > 0 the window is startIndex = max(0, floor(scrollTop
\* / itemHeight) - overscan), endIndex = min(totalItems - 1, ceil((scrollTop
\* + containerHeight) / itemHeight) + overscan), offsetY = startIndex *
\* itemHeight, with overscan 3 when it is left out; (100, 40, 400, 400, 3)
\* gives 7, 23, 280. floor and ceil are stated by their defining inequalities.
C14_VisibleRangeFormula ==
    fnOut # <<>> =>
        LET h   == fnIn.itemHeight
            top == fnIn.scrollTop
            bot == fnIn.scrollTop + fnIn.containerHeight
            ov  == IF fnIn.overscan = <<>> THEN 3 ELSE fnIn.overscan[1]
            out == fnOut[1]
        IN  /\ \E f \in Quotients :
                  /\ f * h <= top /\ top < (f + 1) * h
                  /\ out.startIndex = IF f - ov >= 0 THEN f - ov ELSE 0
            /\ \E c \in Quotients :
                  /\ (c - 1) * h < bot /\ bot <= c * h
                  /\ out.endIndex = IF c + ov <= fnIn.totalItems - 1
                                    THEN c + ov ELSE fnIn.totalItems - 1
            /\ out.offsetY = out.startIndex * h
            /\ ( /\ fnIn.totalItems = 100 /\ h = 40 /\ fnIn.containerHeight = 400
                 /\ top = 400 /\ ov = 3 )
               => out = [startIndex |-> 7, endIndex |-> 23, offsetY |-> 280]

\* the documented example, computed
C14_Witness ==
    /\ fnIn = [totalItems |-> 100, itemHeight |-> 40, containerHeight |-> 400,
               scrollTop |-> 400, overscan |-> <<3>>]
    /\ fnOut = <<[startIndex |-> 7, endIndex |-> 23, offsetY |-> 280]>>

\* a window with the overscan left out and a scroll offset that is not a
\* multiple of the item height
C14_WitnessDefault ==
    /\ fnOut # <<>>
    /\ fnIn.overscan = <<>>
    /\ fnIn.scrollTop = 5 /\ fnIn.itemHeight = 2 /\ fnIn.containerHeight = 4
    /\ fnIn.totalItems = 100
    /\ fnOut[1] = [startIndex |-> 0, endIndex |-> 8, offsetY |-> 0]

\* C15: with totalItems = 0 the window is empty and the caller sees it as
\* startIndex > endIndex, for every scrollTop >= 0, item height, container
\* height and overscan, e.g. visibleRange(0, 40, 400, 0).
C15_EmptyListEmptyRange ==
    (fnOut # <<>> /\ fnIn.totalItems = 0 /\ fnIn.scrollTop >= 0) =>
        fnOut[1].startIndex > fnOut[1].endIndex

\* visibleRange(0, 40, 400, 0), computed
C15_Witness ==
    /\ fnIn = [totalItems |-> 0, itemHeight |-> 40, containerHeight |-> 400,
               scrollTop |-> 0, overscan |-> <<>>]
    /\ fnOut = <<[startIndex |-> 0, endIndex |-> -1, offsetY |-> 0]>>

(***************************************************************************)
(* useDebouncedCallback and useThrottledCallback: one mounted hook each,   *)
(* the function it returns, and the timers of the host. A timer fires when *)
(* its time has come: the clock does not pass a timer that is due.         *)
(***************************************************************************)
\* bounds: calls made, the clock, and the delay or limit argument
MaxShaperCalls == 3
MaxShaperTime == 5
MaxWait == 3

\* the arguments of a call, and the callbacks a render can pass
CallArgs  == {"a1", "a2"}
Callbacks == {"f1", "f2"}

\* clearTimeout(id); clearing a timer that has fired changes nothing
ClearTimeout(timers, id) == { t \in timers : t.id # id }

\* useDebouncedCallback(callback, delay): the first render
DebounceMount ==
    /\ unmounted = FALSE
    /\ atCall = NoValue
    /\ timeoutRef = 0
    /\ callbackRef \in Callbacks
    /\ dTimers = {}
    /\ dDelay \in 0..MaxWait
    /\ dNow = 0
    /\ dCalls = <<>>
    /\ dDelivered = <<>>

\* a debounced function that sets its timer without clearing the pending one
DebouncedCallbackNoClear(args) ==
    /\ Len(dCalls) < MaxShaperCalls
    /\ dTimers' = dTimers \cup
                    {[id |-> Len(dCalls) + 1, due |-> dNow + dDelay, args |-> args]}
    /\ timeoutRef' = Len(dCalls) + 1
    /\ dCalls' = Append(dCalls, [at |-> dNow, args |-> args])
    /\ UNCHANGED <<callbackRef, dDelay, dNow, dDelivered>>

\* a debounced function that leaves a pending timer in place and sets one
\* only when none is pending
DebouncedCallbackKeepsPending(args) ==
    /\ Len(dCalls) < MaxShaperCalls
    /\ IF dTimers # {}
       THEN UNCHANGED <<dTimers, timeoutRef>>
       ELSE /\ dTimers' = {[id |-> Len(dCalls) + 1, due |-> dNow + dDelay, args |-> args]}
            /\ timeoutRef' = Len(dCalls) + 1
    /\ dCalls' = Append(dCalls, [at |-> dNow, args |-> args])
    /\ UNCHANGED <<callbackRef, dDelay, dNow, dDelivered>>

\* the debounced function, called with args
DebouncedCallback(args) ==
    /\ Len(dCalls) < MaxShaperCalls
    /\ LET kept == IF timeoutRef # 0 THEN ClearTimeout(dTimers, timeoutRef)
                                     ELSE dTimers
           id   == Len(dCalls) + 1
       IN  /\ dTimers' = kept \cup {[id |-> id, due |-> dNow + dDelay, args |-> args]}
           /\ timeoutRef' = id
    /\ dCalls' = Append(dCalls, [at |-> dNow, args |-> args])
    /\ UNCHANGED <<callbackRef, dDelay, dNow, dDelivered>>

\* a timer that invokes the callback as it was when the timer was set
DebounceTimeoutCaptured ==
    \E t \in dTimers :
        /\ t.due <= dNow
        /\ dTimers' = dTimers \ {t}
        /\ dDelivered' = Append(dDelivered,
                                [at |-> dNow, args |-> t.args, callback |-> atCall])
        /\ UNCHANGED <<timeoutRef, callbackRef, dDelay, dNow, dCalls>>

\* a timer set by the debounced function fires: callbackRef.current(...args)
DebounceTimeout ==
    \E t \in dTimers :
        /\ t.due <= dNow
        /\ dTimers' = dTimers \ {t}
        /\ dDelivered' = Append(dDelivered,
                                [at |-> dNow, args |-> t.args, callback |-> callbackRef])
        /\ UNCHANGED <<timeoutRef, callbackRef, dDelay, dNow, dCalls>>

\* a render with another callback; the effect stores it in callbackRef
DebounceRender(callback) ==
    /\ callback # callbackRef
    /\ callbackRef' = callback
    /\ UNCHANGED <<timeoutRef, dTimers, dDelay, dNow, dCalls, dDelivered>>

\* one ms passes
DebounceTick ==
    /\ dNow < MaxShaperTime
    /\ \A t \in dTimers : t.due > dNow
    /\ dNow' = dNow + 1
    /\ UNCHANGED <<timeoutRef, callbackRef, dTimers, dDelay, dCalls, dDelivered>>

InitDebounce ==
    /\ RetryInit /\ RaceInit /\ CacheInit /\ FnInit
    /\ DebounceMount /\ ThrottleIdle /\ AbortIdle

NextDebounce ==
    \/ \E args \in CallArgs : DebouncedCallback(args) /\ UNCHANGED notDebounce
    \/ DebounceTimeout /\ UNCHANGED notDebounce
    \/ \E callback \in Callbacks : DebounceRender(callback) /\ UNCHANGED notDebounce
    \/ DebounceTick /\ UNCHANGED notDebounce

SpecDebounce == InitDebounce /\ [][NextDebounce]_vars

\* every call so far came less than delay ms after the call before it
DebounceBurst ==
    \A i \in 2..Len(dCalls) : dCalls[i].at - dCalls[i - 1].at < dDelay

\* C16: N >= 1 calls, each less than delay ms after the one before, lead to
\* exactly one invocation of the wrapped function, with the arguments of the
\* last call: until delay ms after the last call nothing is delivered and
\* the one pending timer carries the last arguments; from then on exactly
\* that one invocation has happened. Superseded arguments are not delivered.
C16_DebounceDeliversLast ==
    (dCalls # <<>> /\ DebounceBurst) =>
        LET last == dCalls[Len(dCalls)]
        IN  \/ /\ dDelivered = <<>>
               /\ dNow <= last.at + dDelay
               /\ dTimers = {[id |-> Len(dCalls), due |-> last.at + dDelay,
                              args |-> last.args]}
            \/ /\ dTimers = {}
               /\ Len(dDelivered) = 1
               /\ dDelivered[1].args = last.args
               /\ dDelivered[1].at = last.at + dDelay

\* three rapid calls, the first with other arguments than the last, and the
\* one invocation that followed
C16_Witness ==
    /\ Len(dCalls) = 3
    /\ DebounceBurst
    /\ dCalls[1].args # dCalls[3].args
    /\ dCalls[3].at > dCalls[1].at
    /\ Len(dDelivered) = 1
    /\ dDelivered[1].args = dCalls[3].args

\* useThrottledCallback(callback, limit): the first render
ThrottleMount ==
    /\ inThrottle = FALSE
    /\ thCallbackRef \in Callbacks
    /\ thTimers = {}
    /\ limit \in 0..MaxWait
    /\ thNow = 0
    /\ thCalls = <<>>
    /\ thDelivered = <<>>

\* a throttled function that closes the window and sets no timer to open it
ThrottledCallbackNoTimer(args) ==
    /\ Len(thCalls) < MaxShaperCalls
    /\ thCalls' = Append(thCalls, [at |-> thNow, args |-> args])
    /\ IF ~inThrottle
       THEN /\ thDelivered' = Append(thDelivered,
                                     [at |-> thNow, call |-> Len(thCalls) + 1,
                                      args |-> args, callback |-> thCallbackRef])
            /\ inThrottle' = TRUE
       ELSE UNCHANGED <<thDelivered, inThrottle>>
    /\ UNCHANGED <<thTimers, thCallbackRef, limit, thNow>>

\* a throttled function that never closes the window
ThrottledCallbackNoWindow(args) ==
    /\ Len(thCalls) < MaxShaperCalls
    /\ thCalls' = Append(thCalls, [at |-> thNow, args |-> args])
    /\ thDelivered' = Append(thDelivered,
                             [at |-> thNow, call |-> Len(thCalls) + 1,
                              args |-> args, callback |-> thCallbackRef])
    /\ thTimers' = thTimers \cup {thNow + limit}
    /\ UNCHANGED <<inThrottle, thCallbackRef, limit, thNow>>

\* the throttled function, called with args
ThrottledCallback(args) ==
    /\ Len(thCalls) < MaxShaperCalls
    /\ thCalls' = Append(thCalls, [at |-> thNow, args |-> args])
    /\ IF ~inThrottle
       THEN /\ thDelivered' = Append(thDelivered,
                                     [at |-> thNow, call |-> Len(thCalls) + 1,
                                      args |-> args, callback |-> thCallbackRef])
            /\ inThrottle' = TRUE
            /\ thTimers' = thTimers \cup {thNow + limit}
       ELSE UNCHANGED <<thDelivered, inThrottle, thTimers>>
    /\ UNCHANGED <<thCallbackRef, limit, thNow>>

\* a timer set by the throttled function fires: inThrottle.current = false
ThrottleTimeout ==
    \E due \in thTimers :
        /\ due <= thNow
        /\ thTimers' = thTimers \ {due}
        /\ inThrottle' = FALSE
        /\ UNCHANGED <<thCallbackRef, limit, thNow, thCalls, thDelivered>>

\* a render with another callback; the effect stores it in callbackRef
ThrottleRender(callback) ==
    /\ callback # thCallbackRef
    /\ thCallbackRef' = callback
    /\ UNCHANGED <<inThrottle, thTimers, limit, thNow, thCalls, thDelivered>>

\* one ms passes
ThrottleTick ==
    /\ thNow < MaxShaperTime
    /\ \A due \in thTimers : due > thNow
    /\ thNow' = thNow + 1
    /\ UNCHANGED <<inThrottle, thCallbackRef, thTimers, limit, thCalls, thDelivered>>

InitThrottle ==
    /\ RetryInit /\ RaceInit /\ CacheInit /\ FnInit
    /\ DebounceIdle /\ ThrottleMount /\ AbortIdle

NextThrottle ==
    \/ \E args \in CallArgs : ThrottledCallback(args) /\ UNCHANGED notThrottle
    \/ ThrottleTimeout /\ UNCHANGED notThrottle
    \/ \E callback \in Callbacks : ThrottleRender(callback) /\ UNCHANGED notThrottle
    \/ ThrottleTick /\ UNCHANGED notThrottle

SpecThrottle == InitThrottle /\ [][NextThrottle]_vars

\* call i of the throttled function reached the wrapped function
Passed(i) == \E k \in 1..Len(thDelivered) : thDelivered[k].call = i

\* C17: the first call invokes the wrapped function at once; a call made
\* less than limit ms after an invocation is ignored, and nothing is ever
\* delivered later than the call it belongs to (no trailing invocation), so
\* calls that all fall within limit ms give exactly one invocation; a call
\* made when more than limit ms have passed since the last invocation is
\* invoked at once, and the window starts again from it.
C17_ThrottleLeadingOnly ==
    /\ thCalls # <<>> => (thDelivered # <<>> /\ thDelivered[1].call = 1)
    /\ \A k \in 1..Len(thDelivered) :
          LET d == thDelivered[k]
          IN  /\ d.call \in 1..Len(thCalls)
              /\ d.at = thCalls[d.call].at
              /\ d.args = thCalls[d.call].args
              /\ \A k2 \in 1..Len(thDelivered) : thDelivered[k2].call = d.call => k2 = k
    /\ \A i \in 1..Len(thCalls) :
          /\ (\E j \in 1..(i - 1) : Passed(j) /\ thCalls[i].at - thCalls[j].at < limit)
                => ~Passed(i)
          /\ (\A j \in 1..(i - 1) : Passed(j) => thCalls[i].at - thCalls[j].at > limit)
                => Passed(i)
    /\ (thCalls # <<>> /\ \A i \in 1..Len(thCalls) : thCalls[i].at - thCalls[1].at < limit)
          => Len(thDelivered) = 1

\* a call invoked, a call within the window ignored, and a call after the
\* window invoked
C17_Witness ==
    /\ Len(thCalls) = 3
    /\ thCalls[2].at > thCalls[1].at
    /\ thCalls[2].at - thCalls[1].at < limit
    /\ thCalls[2].args # thCalls[1].args
    /\ thCalls[3].at - thCalls[1].at > limit
    /\ Len(thDelivered) = 2
    /\ thDelivered[1].call = 1
    /\ thDelivered[2].call = 3
    /\ thNow > thCalls[3].at

(***************************************************************************)
(* createAbortController: one controller, the timer set at its creation,   *)
(* and the caller, who may abort the controller at any time.               *)
(***************************************************************************)
\* bound of the clock; timeoutMs is drawn below it
MaxAbortTime == 8

\* createAbortController(timeoutMs)
CreateAbortController(t) ==
    /\ controller = "none"
    /\ controller' = "live"
    /\ abTimer' = "pending"
    /\ timeoutMs' = t
    /\ abNow' = 0
    /\ UNCHANGED abExplicit

\* a timer that fires without aborting the controller
AbortTimeoutNoAbort ==
    /\ abTimer = "pending"
    /\ abNow >= timeoutMs
    /\ abTimer' = "fired"
    /\ UNCHANGED <<controller, timeoutMs, abNow, abExplicit>>

\* the timer fires: controller.abort()
AbortTimeout ==
    /\ abTimer = "pending"
    /\ abNow >= timeoutMs
    /\ abTimer' = "fired"
    /\ controller' = "aborted"
    /\ UNCHANGED <<timeoutMs, abNow, abExplicit>>

\* the caller calls controller.abort() on the controller it was given
CallerAbort ==
    /\ controller # "none"
    /\ controller' = "aborted"
    /\ abExplicit' = TRUE
    /\ UNCHANGED <<abTimer, timeoutMs, abNow>>

\* one ms passes
AbortTick ==
    /\ controller # "none"
    /\ abNow < MaxAbortTime
    /\ ~(abTimer = "pending" /\ abNow >= timeoutMs)
    /\ abNow' = abNow + 1
    /\ UNCHANGED <<controller, abTimer, timeoutMs, abExplicit>>

InitAbort ==
    /\ RetryInit /\ RaceInit /\ CacheInit /\ FnInit
    /\ DebounceIdle /\ ThrottleIdle /\ AbortIdle

NextAbort ==
    \/ \E t \in 0..(MaxAbortTime - 1) : CreateAbortController(t) /\ UNCHANGED notAbort
    \/ AbortTimeout /\ UNCHANGED notAbort
    \/ CallerAbort /\ UNCHANGED notAbort
    \/ AbortTick /\ UNCHANGED notAbort

SpecAbort == InitAbort /\ [][NextAbort]_vars

\* C19: the controller is not aborted when createAbortController returns; it
\* is aborted once timeoutMs ms have passed and stays aborted from then on;
\* before that it is aborted only if the caller aborted it.
C19_AbortAfterTimeout ==
    controller # "none" =>
        /\ (abTimer = "pending" /\ ~abExplicit) => controller = "live"
        /\ (abNow < timeoutMs /\ ~abExplicit) => controller = "live"
        /\ abNow > timeoutMs => controller = "aborted"
        /\ abTimer = "fired" => (controller = "aborted" /\ abNow >= timeoutMs)
        /\ abExplicit => controller = "aborted"

\* a controller the caller left alone, aborted by its timer, some time later
C19_Witness ==
    /\ controller = "aborted"
    /\ ~abExplicit
    /\ abTimer = "fired"
    /\ timeoutMs >= 2
    /\ abNow > timeoutMs

(***************************************************************************)
(* fetchWithRetry: the default policy across calls, and the bounds of one  *)
(* call.                                                                   *)
(***************************************************************************)
\* failures of the operation in a sequence of calls: one that is retried and
\* one that is not
CallFailures == {NetworkFailure("m1"), ApiFailure(404, "m1")}

InitCalls == RetryInit /\ RaceInit /\ CacheInit /\ FnInit /\ TimersIdle

\* calls of fetchWithRetry one after the other, each made when the call
\* before it has settled
NextCalls ==
    \/ \E config \in Overrides :
          FetchWithRetry(config) /\ UNCHANGED notRetry
    \/ \E v \in OpValues :
          FnResolve(v) /\ UNCHANGED notRetry
    \/ \E error \in CallFailures :
          FnReject(error) /\ UNCHANGED notRetry
    \/ BackoffElapsed /\ UNCHANGED notRetry

SpecCalls == InitCalls /\ [][NextCalls]_vars

\* C18: merging an override over the defaults never changes the defaults:
\* after any sequence of calls DEFAULT_RETRY_CONFIG is {maxRetries 3,
\* initialDelay 1000, maxDelay 10000, backoffMultiplier 2}; a field that the
\* call does not override has its default value, and a call without override
\* runs by the defaults (4 attempts, delays 1000, 2000, 4000 when every
\* attempt fails retryably).
C18_DefaultsNeverMutated ==
    LET d == [maxRetries |-> 3, initialDelay |-> 1000, maxDelay |-> 10000,
              backoffMultiplier |-> 2]
    IN  /\ defaultConfig = d
        /\ rpc # "idle" =>
              \A f \in DOMAIN d :
                  retryConfig[f] = IF f \in DOMAIN configArg THEN configArg[f] ELSE d[f]
        /\ (rpc = "thrown" /\ configArg = <<>> /\ AllRetryable(errs)) =>
              (calls = 4 /\ delays = <<1000, 2000, 4000>>)

\* a call without override, made after a call with an override, that ran out
\* of the default budget
C18_Witness ==
    /\ overridden
    /\ configArg = <<>>
    /\ rpc = "thrown"
    /\ calls = 4
    /\ delays = <<1000, 2000, 4000>>

\* a call that overrides some fields only
C18_WitnessPartial ==
    /\ overridden
    /\ rpc = "awaitFn"
    /\ DOMAIN configArg = {"maxRetries", "maxDelay"}
    /\ retryConfig = [maxRetries |-> 1, initialDelay |-> 1000, maxDelay |-> 1500,
                      backoffMultiplier |-> 2]

\* C20: in every execution the number of attempts is at most maxRetries + 1
\* and the number of backoff delays at most maxRetries; a delay is requested
\* only after a failed attempt, so none precedes the first attempt, and none
\* is requested once the attempt with index maxRetries has failed.
C20_AttemptAndDelayBounds ==
    rpc # "idle" =>
        /\ calls <= retryConfig.maxRetries + 1
        /\ Len(delays) <= retryConfig.maxRetries
        /\ Len(delays) <= Len(errs)
        /\ Len(errs) <= calls
        /\ (rpc = "awaitFn" /\ calls = 1) => delays = <<>>
        /\ Len(errs) = retryConfig.maxRetries + 1 =>
              (rpc = "thrown" /\ Len(delays) = retryConfig.maxRetries)

\* a call with a budget of four retries that used all five attempts
C20_Witness ==
    /\ rpc = "thrown"
    /\ retryConfig.maxRetries = 4
    /\ calls = 5
    /\ Len(errs) = 5
    /\ Len(delays) = 4

(***************************************************************************)
(* fetchWithRetry: the delays between attempts, termination, and failures  *)
(* of unknown shape.                                                       *)
(***************************************************************************)
\* C21: between two consecutive attempts exactly one backoff delay occurs;
\* the delay after the failed attempt with index i is min(initialDelay *
\* backoffMultiplier^i, maxDelay), so initialDelay before the first retry;
\* attempt i + 1 starts only when the timer of delay i has fired (attempt
\* counts the timers that fired).
C21_OneBackoffBetweenAttempts ==
    rpc # "idle" =>
        /\ calls = attempt + 1
        /\ Len(delays) = IF rpc = "sleep" THEN calls ELSE calls - 1
        /\ \A i \in 1..Len(delays) :
              /\ isRetryableError(errs[i])
              /\ delays[i] = IF Scaled(retryConfig, i - 1) <= retryConfig.maxDelay
                             THEN Scaled(retryConfig, i - 1)
                             ELSE retryConfig.maxDelay
        /\ Len(delays) >= 1 => delays[1] = retryConfig.initialDelay

\* the third attempt of a call with initialDelay 500, after delays 500, 1000
C21_Witness ==
    /\ rpc = "awaitFn"
    /\ calls = 3
    /\ retryConfig.initialDelay = 500
    /\ retryConfig.backoffMultiplier = 2
    /\ delays = <<500, 1000>>

\* the call has settled
Terminated == rpc \in {"returned", "thrown"}

\* the three ways a call ends
EndsBySuccess ==
    IF rpc = "returned"
    THEN /\ okValue \in OpValues
         /\ rresult = okValue
         /\ AllRetryable(errs)
    ELSE FALSE

EndsByNonRetryable ==
    IF rpc = "thrown" /\ errs # <<>>
    THEN /\ ~isRetryableError(errs[Len(errs)])
         /\ AllRetryable(SubSeq(errs, 1, Len(errs) - 1))
         /\ okValue = NoValue
    ELSE FALSE

EndsByExhaustion ==
    IF rpc = "thrown"
    THEN /\ Len(errs) = retryConfig.maxRetries + 1
         /\ AllRetryable(errs)
         /\ okValue = NoValue
    ELSE FALSE

\* exactly one of the three
EndsInOneWay ==
    IF EndsBySuccess THEN ~EndsByNonRetryable /\ ~EndsByExhaustion
    ELSE IF EndsByNonRetryable THEN ~EndsByExhaustion
    ELSE EndsByExhaustion

\* the steps of FnResolve and FnReject: the pending attempt settles
AttemptSettles == rpc = "awaitFn" /\ rpc' \in {"returned", "thrown", "sleep"}

\* the steps of BackoffElapsed: the pending backoff timer fires
TimerFires == rpc = "sleep" /\ rpc' \in {"awaitFn", "thrown"}

\* one call of fetchWithRetry in which every attempt settles and every
\* backoff timer fires
SpecFair == Spec /\ WF_rpc(AttemptSettles) /\ WF_rpc(TimerFires)

\* C22: a call of fetchWithRetry whose attempts all settle and whose timers
\* all fire terminates, and it ends in exactly one of three ways: an attempt
\* succeeded, an attempt failed non-retryably, or the attempt with index
\* maxRetries failed retryably.
C22_TerminatesInThreeWays ==
    /\ [](IF Terminated THEN EndsInOneWay ELSE TRUE)
    /\ (rpc # "idle") ~> Terminated

\* a call that ended by exhausting a budget of two retries
C22_Witness ==
    /\ EndsByExhaustion
    /\ retryConfig.maxRetries = 2
    /\ calls = 3

\* a call that ended by success after a retry
C22_WitnessSuccess ==
    /\ EndsBySuccess
    /\ Len(errs) = 1

\* C23: the classifier does not throw and fails closed: a failure of unknown
\* shape (a plain Error, a string, null, undefined, an object without a
\* status) is not retryable, and fetchWithRetry makes no attempt after such
\* a failure: it throws that failure at once.
C23_UnknownFailsClosed ==
    /\ \A e \in UnknownFailures : isRetryableError(e) = FALSE
    /\ \A i \in 1..Len(errs) :
          errs[i] \in UnknownFailures =>
              /\ i = Len(errs)
              /\ rpc = "thrown"
              /\ rresult = errs[i]
              /\ calls = i
              /\ Len(delays) = i - 1

\* a retry that met the failure null and stopped
C23_Witness ==
    /\ rpc = "thrown"
    /\ Len(errs) = 2
    /\ errs[1] = NetworkFailure("m1")
    /\ errs[2] = NullFailure
    /\ calls = 2


(***************************************************************************)
(* withTimeout: the timer after the operation has won the race.            *)
(***************************************************************************)
\* the operation settled the race: it settled while the timer had not fired
OperationWon ==
    /\ opState \in {"fulfilled", "rejected"}
    /\ \/ timerState = "pending"
       \/ timerState = "fired" /\ opAtFire # "pending"

\* C24: once the operation has settled the race (success or failure), no
\* timer scheduled by that withTimeout call remains pending, and its
\* timeout callback has not run after the operation settled.
C24_TimerClearedWhenOperationWins ==
    OperationWon => timerState \notin {"pending", "fired"}

(***************************************************************************)
(* The network call sites (auth.service.ts):                               *)
(*   withTimeout(fetchWithRetry(() => apiClient.post(...)), ms, message)   *)
(* The promise fetchWithRetry returns is the promise withTimeout races     *)
(* against its timer.                                                      *)
(***************************************************************************)
notSite == <<cacheVars, fnVars, debounceVars, throttleVars, abortVars, otherVars>>

\* a settlement of the retry loop that replaces the outcome the caller has
SettleRacedDelivers ==
    IF rpc' \in {"returned", "thrown"}
    THEN /\ opState = "pending"
         /\ opState' = (IF rpc' = "returned" THEN "fulfilled" ELSE "rejected")
         /\ opValue' = rresult'
         /\ opSettledAt' = now
         /\ PromiseRaceLastWins(opState', rresult')
         /\ UNCHANGED <<timerState, opAtFire, ms, message, now>>
    ELSE UNCHANGED raceVars

\* the promise of fetchWithRetry settles when the call returns or throws,
\* and that settles the raced promise
SettleRaced ==
    IF rpc' = "returned" THEN OpFulfil(rresult')
    ELSE IF rpc' = "thrown" THEN OpReject(rresult')
    ELSE UNCHANGED raceVars

\* the call site: fetchWithRetry(fn) is called with no config and invokes fn
\* for the first time, then withTimeout starts its timer
SiteCall(m, msg) ==
    /\ rpc = "idle"
    /\ FetchWithRetry(<<>>)
    /\ WithTimeout(m, msg)

SiteFnResolve(v) == FnResolve(v) /\ SettleRaced

SiteFnReject(error) == FnReject(error) /\ SettleRaced

SiteBackoffElapsed == BackoffElapsed /\ SettleRaced

InitSite == RetryInit /\ RaceInit /\ CacheInit /\ FnInit /\ TimersIdle

NextSite ==
    \/ \E m \in TimeoutValues, msg \in Messages :
          SiteCall(m, msg) /\ UNCHANGED notSite
    \/ \E v \in OpValues :
          SiteFnResolve(v) /\ UNCHANGED notSite
    \/ \E error \in CallFailures :
          SiteFnReject(error) /\ UNCHANGED notSite
    \/ SiteBackoffElapsed /\ UNCHANGED notSite
    \/ TimerFire /\ UNCHANGED notRace
    \/ Tick /\ UNCHANGED notRace

SpecSite == InitSite /\ [][NextSite]_vars

\* C25: at the call sites the timeout bounds each attempt: every attempt of
\* the remote call starts with a fresh timer of its own (pending, no time
\* elapsed on it), not only the first one.
C25_TimeoutPerAttempt ==
    [][calls' = calls + 1 => (timerState' = "pending" /\ now' = 0)]_vars

\* what the call sites do: one timer for the whole call, started with the
\* first attempt and never restarted by a later one
OneTimerForAllAttempts ==
    [][(calls' = calls + 1 /\ calls >= 1) =>
          (timerState' = timerState /\ now' = now /\ raceState' = raceState)]_vars

\* a later attempt is started after the timeout has already settled the race
AttemptAfterTimeout ==
    /\ rpc = "awaitFn"
    /\ calls = 3
    /\ timerState = "fired"
    /\ raceState = "rejected"

(***************************************************************************)
(* MemoCache: the reads.                                                   *)
(***************************************************************************)
\* the value of the latest set of key k in the history, as <<value>>
LatestSet(k) ==
    LET last == CHOOSE i \in 1..Len(log) :
                    /\ log[i][1] = k
                    /\ \A j \in (i + 1)..Len(log) : log[j][1] # k
    IN  <<log[last][2]>>

\* C26: get and has have no side effect: for a key present or absent they
\* leave the stored keys, their values and their order (so the eviction
\* order) and the capacity as they are; get returns the value most recently
\* set for a stored key and undefined for a key that is not stored, has
\* tells whether the key is stored.
C26_ReadsHaveNoEffect ==
    [][ /\ ret'.op \in {"get", "has"} =>
             /\ cache' = cache
             /\ maxSize' = maxSize
        /\ ret'.op = "get" =>
             /\ ~MapHas(cache, ret'.key) => ret'.value = <<>>
             /\ (MapHas(cache, ret'.key) /\ ~logOverflow) =>
                   /\ \E i \in 1..Len(log) : log[i][1] = ret'.key
                   /\ ret'.value = LatestSet(ret'.key)
        /\ ret'.op = "has" => ret'.value = <<MapHas(cache, ret'.key)>> ]_vars

\* a get of a key that was set twice returns the second value
C26_Witness ==
    /\ ret.op = "get"
    /\ ~logOverflow
    /\ Len(log) = 3
    /\ log[1] = <<ret.key, "x">>
    /\ log[2][1] # ret.key
    /\ log[3] = <<ret.key, "y">>
    /\ Len(cache) = 2
    /\ ret.value = <<"y">>

\* a get of a key that is not stored returns undefined
C26_WitnessAbsent ==
    /\ ret.op = "get"
    /\ cache # <<>>
    /\ ~MapHas(cache, ret.key)
    /\ ret.value = <<>>

(***************************************************************************)
(* calculateVisibleRange: signs, negative scroll positions, overscan.      *)
(***************************************************************************)
\* the overscan of the call whose result is in fnOut
UsedOverscan == IF fnIn.overscan = <<>> THEN DefaultOverscan ELSE fnIn.overscan[1]

C27_WitnessEmpty ==
    /\ fnOut # <<>>
    /\ fnIn.totalItems = 0
    /\ fnIn.scrollTop = 0
    /\ fnOut[1].endIndex = -1

\* C28: for every scrollTop < 0 the result is the one for scrollTop = 0 with
\* the other arguments unchanged: the same startIndex (0), offsetY (0) and
\* endIndex.
C28_NegativeScrollClamped ==
    (fnOut # <<>> /\ fnIn.scrollTop < 0) =>
        fnOut[1] = calculateVisibleRange(fnIn.totalItems, fnIn.itemHeight,
                                         fnIn.containerHeight, 0, UsedOverscan)

\* what holds for a negative scrollTop: the start and the offset are those
\* of scrollTop = 0, the end is at most that of scrollTop = 0
NegativeScrollClampsStartOnly ==
    (fnOut # <<>> /\ fnIn.scrollTop < 0) =>
        LET atZero == calculateVisibleRange(fnIn.totalItems, fnIn.itemHeight,
                                            fnIn.containerHeight, 0, UsedOverscan)
        IN  /\ fnOut[1].startIndex = 0 /\ atZero.startIndex = 0
            /\ fnOut[1].offsetY = 0 /\ atZero.offsetY = 0
            /\ fnOut[1].endIndex <= atZero.endIndex

\* item i of the list intersects the viewport [scrollTop, scrollTop + containerHeight)
Visible(i) ==
    /\ 0 <= i /\ i < fnIn.totalItems
    /\ i * fnIn.itemHeight < fnIn.scrollTop + fnIn.containerHeight
    /\ (i + 1) * fnIn.itemHeight > fnIn.scrollTop
    /\ fnIn.containerHeight > 0

VisibleItems == {i \in 0..(fnIn.totalItems - 1) : Visible(i)}

FirstVisible == CHOOSE i \in VisibleItems : \A j \in VisibleItems : i <= j
LastVisible  == CHOOSE i \in VisibleItems : \A j \in VisibleItems : j <= i

SpecDebounceFair ==
    /\ SpecDebounce
    /\ WF_vars(DebounceTimeout /\ UNCHANGED notDebounce)
    /\ WF_vars(DebounceTick /\ UNCHANGED notDebounce)

\* at most one timer is pending, and it is the timer of the latest call
OnePendingTimer ==
    /\ Cardinality(dTimers) <= 1
    /\ \A t \in dTimers :
          /\ t.id = Len(dCalls) /\ t.id = timeoutRef
          /\ t.due = dCalls[t.id].at + dDelay
          /\ t.args = dCalls[t.id].args

\* every invocation belongs to a call made delay ms before it that was the
\* most recent call when the invocation happened; a superseded call (one
\* followed by another call before its delay had passed) has no invocation
DeliveredOnlyAfterQuiet ==
    /\ \A k \in 1..Len(dDelivered) :
          \E i \in 1..Len(dCalls) :
              /\ dDelivered[k].args = dCalls[i].args
              /\ dDelivered[k].at = dCalls[i].at + dDelay
              /\ \A j \in (i + 1)..Len(dCalls) : dCalls[j].at >= dDelivered[k].at
    /\ Len(dDelivered) <= Cardinality({ i \in 1..Len(dCalls) :
                              \/ i = Len(dCalls)
                              \/ dCalls[i + 1].at >= dCalls[i].at + dDelay })

\* call n is the last call made and has been delivered
LastDelivered(n) ==
    /\ Len(dCalls) = n
    /\ dTimers = {}
    /\ dDelivered # <<>>
    /\ dDelivered[Len(dDelivered)].args = dCalls[n].args
    /\ dDelivered[Len(dDelivered)].at = dCalls[n].at + dDelay

\* the pending timer is due after the last instant of the model's clock
BeyondClock == \E t \in dTimers : t.due > MaxShaperTime

\* C30: at most one timer is pending at any time, the one of the most
\* recent call; a superseded call is never fired; an invocation happens only
\* delay ms after the most recent call with no call in between; whenever no
\* timer is pending the last call made is the last one delivered; and a
\* pending timer does not stay pending for ever, so that once calls stop the
\* last call is eventually delivered (while its due time is within the
\* clock of the model).
C30_OneTimerLastCallDelivered ==
    /\ [](/\ OnePendingTimer
          /\ DeliveredOnlyAfterQuiet
          /\ (dCalls # <<>> /\ dTimers = {}) => LastDelivered(Len(dCalls)))
    /\ (dTimers # {}) ~> (dTimers = {} \/ BeyondClock)

\* two calls in a row, the first superseded, the second delivered
C30_Witness ==
    /\ LastDelivered(2)
    /\ dDelay >= 2
    /\ dCalls[2].at > dCalls[1].at
    /\ dCalls[2].at - dCalls[1].at < dDelay
    /\ dCalls[1].args # dCalls[2].args
    /\ Len(dDelivered) = 1

(***************************************************************************)
(* useThrottledCallback: spacing of the invocations, one cooldown timer.   *)
(***************************************************************************)
\* C31: any two invocations of the wrapped function are at least limit ms
\* apart, and at most one cooldown timer is pending at any time: a timer is
\* pending exactly while the window is closed, and it is due limit ms after
\* the last invocation.
C31_ThrottleSpacing ==
    /\ \A k \in 2..Len(thDelivered) :
          thDelivered[k].at - thDelivered[k - 1].at >= limit
    /\ Cardinality(thTimers) <= 1
    /\ inThrottle <=> thTimers # {}
    /\ \A due \in thTimers :
          /\ thDelivered # <<>>
          /\ due = thDelivered[Len(thDelivered)].at + limit

\* two invocations limit ms apart and an ignored call between them
C31_Witness ==
    /\ limit >= 2
    /\ Len(thCalls) = 3
    /\ Len(thDelivered) = 2
    /\ thDelivered[1].call = 1
    /\ thDelivered[2].call = 3
    /\ thDelivered[2].at - thDelivered[1].at = limit
    /\ thCalls[2].at > thCalls[1].at
    /\ thTimers # {}

(***************************************************************************)
(* Teardown of the component that uses a hook.  Neither hook registers a   *)
(* cleanup: the effect of each only stores the callback and returns        *)
(* nothing, so unmounting runs no code of the hook.  After the unmount the *)
(* component makes no call and renders no more; the host's timers go on.   *)
(***************************************************************************)
notOther == <<retryVars, raceVars, cacheVars, fnVars, debounceVars, throttleVars, abortVars>>

DebounceMounted == callbackRef # NoValue
ThrottleMounted == thCallbackRef # NoValue

\* the component is unmounted: no cleanup of the hook runs
Unmount ==
    /\ ~unmounted
    /\ unmounted' = TRUE
    /\ UNCHANGED <<atCall, peer>>

\* a component with one of the two hooks
InitTeardown ==
    /\ RetryInit /\ RaceInit /\ CacheInit /\ FnInit /\ AbortIdle
    /\ \/ DebounceMount /\ ThrottleIdle
       \/ DebounceIdle /\ ThrottleMount

NextTeardown ==
    \/ \E args \in CallArgs :
          /\ DebounceMounted /\ ~unmounted
          /\ DebouncedCallback(args) /\ UNCHANGED notDebounce
    \/ DebounceMounted /\ DebounceTimeout /\ UNCHANGED notDebounce
    \/ \E callback \in Callbacks :
          /\ DebounceMounted /\ ~unmounted
          /\ DebounceRender(callback) /\ UNCHANGED notDebounce
    \/ DebounceMounted /\ DebounceTick /\ UNCHANGED notDebounce
    \/ \E args \in CallArgs :
          /\ ThrottleMounted /\ ~unmounted
          /\ ThrottledCallback(args) /\ UNCHANGED notThrottle
    \/ ThrottleMounted /\ ThrottleTimeout /\ UNCHANGED notThrottle
    \/ \E callback \in Callbacks :
          /\ ThrottleMounted /\ ~unmounted
          /\ ThrottleRender(callback) /\ UNCHANGED notThrottle
    \/ ThrottleMounted /\ ThrottleTick /\ UNCHANGED notThrottle
    \/ Unmount /\ UNCHANGED notOther

SpecTeardown == InitTeardown /\ [][NextTeardown]_vars

\* C32: when the component is unmounted the timer of the hook is released:
\* no timer set by the debounced or the throttled function is pending after
\* the unmount, and the wrapped function is not invoked after it.
C32_TeardownReleasesTimers ==
    [][ /\ unmounted' => (dTimers' = {} /\ thTimers' = {})
        /\ unmounted => (dDelivered' = dDelivered /\ thDelivered' = thDelivered) ]_vars

\* the second half alone: no invocation after the unmount
NoInvocationAfterTeardown ==
    [][unmounted => dDelivered' = dDelivered]_vars

\* what does hold: after the unmount no new timer is set
NoTimerSetAfterTeardown ==
    [][unmounted => (dTimers' \subseteq dTimers /\ thTimers' \subseteq thTimers)]_vars

(***************************************************************************)
(* The callback the hooks invoke.  A render passes a callback and the      *)
(* effect stores it in callbackRef; the timer of the debounced function    *)
(* and the throttled function read callbackRef when they invoke it.        *)
(***************************************************************************)
notDebounceNorOther == <<retryVars, raceVars, cacheVars, fnVars, throttleVars, abortVars>>

\* a component with one of the two hooks; the history notes the callback
\* that was current at each call of the debounced function
NextLatest ==
    \/ \E args \in CallArgs :
          /\ DebounceMounted
          /\ DebouncedCallback(args)
          /\ atCall' = callbackRef
          /\ UNCHANGED <<unmounted, peer, notDebounceNorOther>>
    \/ DebounceMounted /\ DebounceTimeout /\ UNCHANGED notDebounce
    \/ \E callback \in Callbacks :
          DebounceMounted /\ DebounceRender(callback) /\ UNCHANGED notDebounce
    \/ DebounceMounted /\ DebounceTick /\ UNCHANGED notDebounce
    \/ \E args \in CallArgs :
          ThrottleMounted /\ ThrottledCallback(args) /\ UNCHANGED notThrottle
    \/ ThrottleMounted /\ ThrottleTimeout /\ UNCHANGED notThrottle
    \/ \E callback \in Callbacks :
          ThrottleMounted /\ ThrottleRender(callback) /\ UNCHANGED notThrottle
    \/ ThrottleMounted /\ ThrottleTick /\ UNCHANGED notThrottle

SpecLatest == InitTeardown /\ [][NextLatest]_vars

C33_WitnessThrottle ==
    /\ Len(thDelivered) = 2
    /\ thDelivered[1].callback # thDelivered[2].callback
    /\ thDelivered[2].callback = thCallbackRef

(***************************************************************************)
(* Two invocations of fetchWithRetry in flight at once.  retryConfig,      *)
(* lastError and attempt are locals of an invocation (lines 441, 442, 444):*)
(* the second invocation has its own, held in the record peer; the only    *)
(* thing the two share is DEFAULT_RETRY_CONFIG, which both read.           *)
(***************************************************************************)
notPeer == <<retryVars, raceVars, cacheVars, fnVars, debounceVars, throttleVars, abortVars,
             unmounted, atCall>>

\* the config arguments of the two calls
ConcurrentConfigs == {<<>>} \cup {[maxRetries |-> n] : n \in 0..1}

\* the second invocation is called: merge, then the head of the loop
PeerFetchWithRetry(config) ==
    /\ peer.rpc = "idle"
    /\ LET merged == MergeConfig(defaultConfig, config)
       IN  peer' = IF 0 <= merged.maxRetries
                   THEN [peer EXCEPT !.retryConfig = merged, !.rpc = "awaitFn", !.calls = 1]
                   ELSE [peer EXCEPT !.retryConfig = merged, !.rpc = "thrown"]

\* its await fn() fulfils: return the value
PeerFnResolve(v) ==
    /\ peer.rpc = "awaitFn"
    /\ peer' = [peer EXCEPT !.rpc = "returned", !.rresult = v]

\* its catch block, with the budget tested against the index of the first
\* invocation
PeerFnRejectSharedIndex(error) ==
    /\ peer.rpc = "awaitFn"
    /\ peer' = IF ~isRetryableError(error) \/ attempt = peer.retryConfig.maxRetries
               THEN [peer EXCEPT !.lastError = error, !.errs = Append(@, error),
                                 !.rpc = "thrown", !.rresult = error]
               ELSE [peer EXCEPT !.lastError = error, !.errs = Append(@, error),
                                 !.rpc = "sleep"]

\* its await fn() rejects: the catch block
PeerFnReject(error) ==
    /\ peer.rpc = "awaitFn"
    /\ peer' = IF ~isRetryableError(error) \/ peer.attempt = peer.retryConfig.maxRetries
               THEN [peer EXCEPT !.lastError = error, !.errs = Append(@, error),
                                 !.rpc = "thrown", !.rresult = error]
               ELSE [peer EXCEPT !.lastError = error, !.errs = Append(@, error),
                                 !.rpc = "sleep"]

\* its backoff timer fires: attempt++, back to the head of the loop
PeerBackoffElapsed ==
    /\ peer.rpc = "sleep"
    /\ peer' = IF peer.attempt + 1 <= peer.retryConfig.maxRetries
               THEN [peer EXCEPT !.attempt = @ + 1, !.rpc = "awaitFn", !.calls = @ + 1]
               ELSE [peer EXCEPT !.attempt = @ + 1, !.rpc = "thrown",
                                 !.rresult = peer.lastError]

InitConcurrent == RetryInit /\ RaceInit /\ CacheInit /\ FnInit /\ TimersIdle

NextConcurrent ==
    \/ \E config \in ConcurrentConfigs :
          rpc = "idle" /\ FetchWithRetry(config) /\ UNCHANGED notRetry
    \/ \E v \in OpValues : FnResolve(v) /\ UNCHANGED notRetry
    \/ \E error \in CallFailures : FnReject(error) /\ UNCHANGED notRetry
    \/ BackoffElapsed /\ UNCHANGED notRetry
    \/ \E config \in ConcurrentConfigs :
          PeerFetchWithRetry(config) /\ UNCHANGED notPeer
    \/ \E v \in OpValues : PeerFnResolve(v) /\ UNCHANGED notPeer
    \/ \E error \in CallFailures : PeerFnReject(error) /\ UNCHANGED notPeer
    \/ PeerBackoffElapsed /\ UNCHANGED notPeer

SpecConcurrent == InitConcurrent /\ [][NextConcurrent]_vars

\* the first invocation seen as the second one is kept
Self ==
    [rpc |-> rpc, retryConfig |-> retryConfig, attempt |-> attempt,
     lastError |-> lastError, rresult |-> rresult, calls |-> calls, errs |-> errs]

\* an invocation made at most maxRetries + 1 attempts, and its outcome is
\* the one its own attempts give
OwnBudgetAndOutcome(inv) ==
    /\ inv.calls <= inv.retryConfig.maxRetries + 1
    /\ inv.attempt <= inv.retryConfig.maxRetries
    /\ inv.rpc \in {"awaitFn", "sleep"} =>
          /\ inv.calls = inv.attempt + 1
          /\ AllRetryable(inv.errs)
          /\ Len(inv.errs) = IF inv.rpc = "sleep" THEN inv.calls ELSE inv.calls - 1
    /\ inv.rpc = "returned" =>
          /\ inv.rresult \in OpValues
          /\ AllRetryable(inv.errs)
          /\ Len(inv.errs) = inv.calls - 1
    /\ inv.rpc = "thrown" =>
          /\ Len(inv.errs) = inv.calls
          /\ inv.rresult = inv.errs[Len(inv.errs)]
          /\ AllRetryable(SubSeq(inv.errs, 1, Len(inv.errs) - 1))
          /\ \/ ~isRetryableError(inv.errs[Len(inv.errs)])
             \/ Len(inv.errs) = inv.retryConfig.maxRetries + 1

\* the fields of an invocation that a step of the other one could disturb
Locals(inv) == <<inv.rpc, inv.attempt, inv.calls, inv.errs, inv.lastError, inv.retryConfig>>

\* C34: two invocations in flight together are independent: a step of one
\* leaves the attempt index, the last failure, the policy and the history of
\* the other as they are, so in every interleaving each makes at most its
\* own maxRetries + 1 attempts and ends as its own attempts decide.
\* while the first invocation waits for its backoff timer, the second one
\* can take whatever step it is at.
C34_ConcurrentCallsIndependent ==
    /\ [][ /\ OwnBudgetAndOutcome(Self)' /\ OwnBudgetAndOutcome(peer)'
           /\ Locals(peer)' # Locals(peer) => Locals(Self)' = Locals(Self)
           /\ Locals(Self)' # Locals(Self) => Locals(peer)' = Locals(peer) ]_vars
    /\ [](rpc = "sleep" =>
            /\ peer.rpc = "idle" => ENABLED (PeerFetchWithRetry(<<>>) /\ UNCHANGED notPeer)
            /\ peer.rpc = "awaitFn" => ENABLED (PeerFnResolve("v1") /\ UNCHANGED notPeer)
            /\ peer.rpc = "sleep" => ENABLED (PeerBackoffElapsed /\ UNCHANGED notPeer))

\* the first invocation waits in its first backoff delay, and the second
\* one, called with another budget, has failed once, retried and returned
C34_Witness ==
    /\ rpc = "sleep" /\ calls = 1 /\ retryConfig.maxRetries = 3
    /\ peer.rpc = "returned" /\ peer.calls = 2 /\ peer.retryConfig.maxRetries = 1
    /\ peer.rresult = "v2"

(***************************************************************************)
(* MemoCache: set on a stored key, and reading back what was set.          *)
(***************************************************************************)
\* C35: a set on a key that is already stored removes no other key: the set
\* of stored keys is the same before and after it, also when the store
\* holds exactly maxSize entries.
C35_UpdateRemovesNoKey ==
    [][ (ret'.op = "set" /\ MapHas(cache, ret'.key)) =>
            KeysOf(cache') = KeysOf(cache) ]_vars

\* what holds: below capacity an update removes no key, and at capacity it
\* removes at most the oldest key
UpdateRemovesAtMostOldest ==
    [][ (ret'.op = "set" /\ MapHas(cache, ret'.key)) =>
            /\ Len(cache) < maxSize => KeysOf(cache') = KeysOf(cache)
            /\ KeysOf(cache) \ KeysOf(cache') \subseteq {FirstKey(cache)}
            /\ MapHas(cache', ret'.key) ]_vars

\* the keys other than log[i]'s that were set after set number i
LaterKeys(i) == {log[j][1] : j \in (i + 1)..Len(log)} \ {log[i][1]}

\* set number i of the history is the latest set of its key
LatestOfKey(i) == \A j \in (i + 1)..Len(log) : log[j][1] # log[i][1]

\* C36: after set(k, v), has(k) is true and get(k) returns v, and this stays
\* so until k is set again, cleared, or evicted by maxSize later insertions
\* of other keys: while fewer than maxSize other keys were set since, k is
\* stored with v.
C36_ReadYourWrite ==
    ~logOverflow =>
        \A i \in 1..Len(log) :
            (LatestOfKey(i) /\ Cardinality(LaterKeys(i)) < maxSize) =>
                /\ MapHas(cache, log[i][1])
                /\ MapGet(cache, log[i][1]) = <<log[i][2]>>

\* what holds: right after set(k, v) the key is stored with v, and it stays
\* stored with v while fewer than maxSize sets followed, none of them on a
\* key set before
ReadYourWriteUntilUpdate ==
    ~logOverflow =>
        /\ log # <<>> => MapGet(cache, log[Len(log)][1]) = <<log[Len(log)][2]>>
        /\ DistinctLog =>
              \A i \in 1..Len(log) :
                  Len(log) - i < maxSize => MapGet(cache, log[i][1]) = <<log[i][2]>>

(***************************************************************************)
(* calculateVisibleRange: covering the viewport, well-formed ranges.       *)
(***************************************************************************)
\* C37: for totalItems >= 1, itemHeight >= 1, containerHeight >= 1,
\* overscan >= 0 and scrollTop >= 0, every item i of the list whose extent
\* [i * itemHeight, (i + 1) * itemHeight) meets the viewport
\* [scrollTop, scrollTop + containerHeight) lies in startIndex..endIndex.
C37_CoversViewport ==
    (/\ fnOut # <<>>
     /\ fnIn.totalItems >= 1 /\ fnIn.containerHeight >= 1 /\ fnIn.scrollTop >= 0) =>
        \A i \in 0..(fnIn.totalItems - 1) :
            (/\ i * fnIn.itemHeight < fnIn.scrollTop + fnIn.containerHeight
             /\ fnIn.scrollTop < (i + 1) * fnIn.itemHeight) =>
                (fnOut[1].startIndex <= i /\ i <= fnOut[1].endIndex)

\* no overscan, the viewport starts inside item 1 and ends inside item 3:
\* items 1, 2 and 3 are in the range
C37_Witness ==
    /\ fnOut # <<>>
    /\ fnIn.totalItems = 5 /\ fnIn.itemHeight = 3 /\ fnIn.containerHeight = 4
    /\ fnIn.scrollTop = 5
    /\ fnIn.overscan = <<0>>
    /\ fnOut[1].startIndex = 1
    /\ fnOut[1].endIndex = 3

\* the largest scroll position of the list in its container
MaxScrollTop == Max(0, fnIn.totalItems * fnIn.itemHeight - fnIn.containerHeight)

\* C38: for totalItems >= 1, itemHeight >= 1, containerHeight >= 1,
\* overscan >= 0 and 0 <= scrollTop <= max(0, totalItems * itemHeight -
\* containerHeight), the range is well-formed and not empty:
\* 0 <= startIndex <= endIndex <= totalItems - 1.
C38_WellFormedRange ==
    (/\ fnOut # <<>>
     /\ fnIn.totalItems >= 1 /\ fnIn.containerHeight >= 1
     /\ 0 <= fnIn.scrollTop /\ fnIn.scrollTop <= MaxScrollTop) =>
        /\ 0 <= fnOut[1].startIndex
        /\ fnOut[1].startIndex <= fnOut[1].endIndex
        /\ fnOut[1].endIndex <= fnIn.totalItems - 1

\* a list scrolled to its end: the range ends at the last item
C38_Witness ==
    /\ fnOut # <<>>
    /\ fnIn.totalItems = 4 /\ fnIn.itemHeight = 2 /\ fnIn.containerHeight = 4
    /\ fnIn.scrollTop = MaxScrollTop
    /\ fnIn.scrollTop > 0
    /\ fnIn.overscan = <<1>>
    /\ fnOut[1].startIndex = 1
    /\ fnOut[1].endIndex = 3

(***************************************************************************)
(* The call sites: the retry loop after the timeout.                       *)
(***************************************************************************)
\* the timer fired while the retry loop was running: the caller has the
\* timeout failure
TimedOut == timerState = "fired" /\ opAtFire = "pending"

\* C39: in withTimeout(fetchWithRetry(op), ms) the timeout does not stop the
\* retry loop.  Once the caller has the timeout failure it keeps it, whatever
\* the loop does afterwards; the loop can still take its next step (a
\* pending attempt can settle, a backoff timer can fire and start the next
\* attempt), and it ends on its own by a success, a non-retryable failure
\* or the exhausted budget, none of which reaches the caller.
C39_TimeoutLeavesLoopRunning ==
    /\ [](TimedOut =>
            /\ raceState = "rejected"
            /\ raceValue = TimeoutFailure(message)
            /\ rpc = "sleep" => ENABLED (SiteBackoffElapsed /\ UNCHANGED notSite)
            /\ rpc = "awaitFn" =>
                  /\ ENABLED (SiteFnResolve("v1") /\ UNCHANGED notSite)
                  /\ ENABLED (SiteFnReject(NetworkFailure("m1")) /\ UNCHANGED notSite)
            /\ Terminated => EndsInOneWay)
    /\ [][TimedOut => (raceState' = raceState /\ raceValue' = raceValue)]_vars

\* the login timed out, the loop went on to a second attempt, and its
\* success came after the timeout and was not delivered
C39_Witness ==
    /\ TimedOut
    /\ rpc = "returned" /\ rresult = "v1" /\ calls = 2
    /\ opState = "fulfilled" /\ opValue = "v1"
    /\ opSettledAt > ms
    /\ raceState = "rejected"
    /\ raceValue = Error("m1")

=============================================================================
